---------------------------- MODULE Spec2Model ----------------------------
(***************************************************************************)
(* A model of the virtual canvas: the gesture interpreter (HandTracker),   *)
(* the button menu (Menu, CircleButton) and the frame loop with its        *)
(* drawing surface (VirtualCanvas).  Objects are records whose fields keep *)
(* the names of the Python attributes; a method is an operator that takes  *)
(* the object and returns the object after the call.                       *)
(***************************************************************************)
EXTENDS Integers, Sequences, FiniteSets, TLC

VARIABLES
    app,    \* the VirtualCanvas object, with its tracker and its menu
    hist,   \* what the last frames showed: input, locals and results
    pc      \* where run() is: "loop" or "done"

vars == <<app, hist, pc>>

\* Python's None: unequal to every record and to every non-empty tuple.
None == << >>

(***************************************************************************)
(* modules/drawing.py: colours are BGR triples.                            *)
(***************************************************************************)
RED == <<0, 0, 255>>
GREEN == <<0, 255, 0>>
BLUE == <<255, 0, 0>>
YELLOW == <<0, 255, 255>>
PURPLE == <<255, 0, 255>>
CYAN == <<255, 255, 0>>
WHITE == <<255, 255, 255>>
LIGHT_GRAY == <<211, 211, 211>>
MID_GRAY == <<169, 169, 169>>
BLACK == <<0, 0, 0>>
ORANGE == <<0, 165, 255>>
PINK == <<203, 192, 255>>
INDIGO == <<130, 0, 75>>
VIOLET == <<238, 130, 238>>

COLORS ==
    <<RED, GREEN, BLUE, YELLOW, PURPLE, CYAN, WHITE, BLACK, ORANGE, PINK,
      INDIGO, VIOLET>>

(***************************************************************************)
(* Sequence helpers for Python's list operations.                          *)
(***************************************************************************)
RECURSIVE Filter(_, _)
\* [c for c in s if c != drop]
Filter(s, drop) ==
    IF s = << >> THEN << >>
    ELSE IF Head(s) = drop THEN Filter(Tail(s), drop)
    ELSE <<Head(s)>> \o Filter(Tail(s), drop)

\* s[:n]
Take(s, n) == SubSeq(s, 1, IF Len(s) < n THEN Len(s) ELSE n)

\* x in s
Contains(s, x) == \E i \in 1..Len(s) : s[i] = x

\* int(): truncation toward zero of n / d, d > 0
Trunc(n, d) == IF n >= 0 THEN n \div d ELSE -((-n) \div d)

(***************************************************************************)
(* modules/camera.py: the frame size.                                      *)
(***************************************************************************)
DEFAULT_WIDTH == 640
DEFAULT_HEIGHT == 480

(***************************************************************************)
(* main.py: the class constants of VirtualCanvas.  The fractions 0.79,     *)
(* 0.05, 0.20, 0.1 and 0.9 are kept as hundredths.                         *)
(***************************************************************************)
ESC_KEY == 27
CANVAS_SIZE_MULTIPLIER == 79
CANVAS_OFFSET_X == 5
CANVAS_OFFSET_Y == 20
TOGGLE_OFFSET_Y == 10
BOARD_TOOGLE_OFFSET_X == 10
PEN_TOGGLE_OFFSET_X == 90
DEFAULT_BRUSH_SIZE == 10
ERASER_BRUSH_MULTIPLIER == 2

BOARD_TOGGLE == "Board"
COLORS_TOGGLE == "Colors"
BRUSH_SIZE_TOGGLE == "Pen Size"
ERASER_TOGGLE == "Eraser"

\* int(dimension * fraction), the fraction in hundredths
Scaled(dimension, hundredths) == Trunc(dimension * hundredths, 100)

(***************************************************************************)
(* modules/menu.py: CircleButton and Menu.                                 *)
(***************************************************************************)
BUTTON_RADIUS == 25
TOGGLE_RADIUS == 30
BUTTON_SPACING == 75
PEN_SIZE_OFFSET_Y == 65
MAX_COLORS == 8
PEN_SIZE_MIN == 5
PEN_SIZE_MAX == 30
PEN_SIZE_STEP == 5
CLEAR_OFFSET_X == 80
ERASER_OFFSET_X == 80
COLOR_OFFSET_X == 80

CLEAR_BUTTON == "Clear"
MENU_BOARD_TOOGLE == "Board"
PEN_TOGGLE == "Pen Size"
COLOR_TOGGLE == "Colors"
MENU_ERASER_TOGGLE == "Eraser"

\* CircleButton.__init__
CircleButton(center_x, center_y, radius, color, label, is_pen, value) ==
    [center_x |-> center_x, center_y |-> center_y, radius |-> radius,
     color |-> color, label |-> label, is_pen |-> is_pen, value |-> value]

\* CircleButton.is_over, mutated: the boundary counts as inside
is_over_closed(button, x, y) ==
    LET dx == x - button.center_x
        dy == y - button.center_y
    IN  dx * dx + dy * dy <= button.radius * button.radius

\* CircleButton.is_over
is_over(button, x, y) ==
    LET dx == x - button.center_x
        dy == y - button.center_y
    IN  dx * dx + dy * dy < button.radius * button.radius

\* str(size) for the sizes of the pen-size buttons
Str(n) ==
    CASE n = 5 -> "5" [] n = 10 -> "10" [] n = 15 -> "15"
      [] n = 20 -> "20" [] n = 25 -> "25" [] n = 30 -> "30"
      [] OTHER -> "?"

\* Menu.create_color_buttons, mutated: white is not left out of the palette
create_color_buttons_with_white(color_toggle_pos) ==
    LET palette == Take(COLORS, MAX_COLORS)
    IN  [index \in 1..Len(palette) |->
            CircleButton(
                color_toggle_pos[1] - BUTTON_SPACING
                    - (index - 1) * BUTTON_SPACING,
                color_toggle_pos[2], BUTTON_RADIUS, palette[index],
                "", FALSE, None)]

\* Menu.create_color_buttons
create_color_buttons(color_toggle_pos) ==
    LET palette == Take(Filter(COLORS, WHITE), MAX_COLORS)
    IN  [index \in 1..Len(palette) |->
            CircleButton(
                color_toggle_pos[1] - BUTTON_SPACING
                    - (index - 1) * BUTTON_SPACING,
                color_toggle_pos[2], BUTTON_RADIUS, palette[index],
                "", FALSE, None)]

\* Menu.create_pen_size_buttons
create_pen_size_buttons(pen_toggle_pos) ==
    LET count == (PEN_SIZE_MAX - PEN_SIZE_MIN) \div PEN_SIZE_STEP + 1
        base_y == pen_toggle_pos[2] + PEN_SIZE_OFFSET_Y
    IN  [index \in 1..count |->
            LET size == PEN_SIZE_MIN + (index - 1) * PEN_SIZE_STEP
            IN  CircleButton(
                    pen_toggle_pos[1],
                    base_y + (index - 1) * BUTTON_SPACING,
                    BUTTON_RADIUS, MID_GRAY, Str(size), TRUE, size)]

\* Menu.__init__ followed by Menu.create_buttons
Menu(board_toggle_pos, pen_toggle_pos) ==
    LET clear_button_pos ==
            <<pen_toggle_pos[1] - CLEAR_OFFSET_X, pen_toggle_pos[2]>>
        eraser_button_pos ==
            <<clear_button_pos[1] - ERASER_OFFSET_X, pen_toggle_pos[2]>>
        color_toggle_pos ==
            <<eraser_button_pos[1] - COLOR_OFFSET_X, pen_toggle_pos[2]>>
    IN  [last_message |-> << >>,
         current_hover |-> None,
         color_buttons |-> create_color_buttons(color_toggle_pos),
         pen_size_buttons |-> create_pen_size_buttons(pen_toggle_pos),
         shape_buttons |-> << >>,
         clear_button |->
            CircleButton(clear_button_pos[1], clear_button_pos[2],
                         TOGGLE_RADIUS, LIGHT_GRAY, CLEAR_BUTTON, FALSE, None),
         board_toggle |->
            CircleButton(board_toggle_pos[1], board_toggle_pos[2],
                         TOGGLE_RADIUS, LIGHT_GRAY, MENU_BOARD_TOOGLE, FALSE,
                         None),
         pen_toggle |->
            CircleButton(pen_toggle_pos[1], pen_toggle_pos[2],
                         TOGGLE_RADIUS, LIGHT_GRAY, PEN_TOGGLE, FALSE, None),
         color_toggle |->
            CircleButton(color_toggle_pos[1], color_toggle_pos[2],
                         TOGGLE_RADIUS, LIGHT_GRAY, COLOR_TOGGLE, FALSE, None),
         eraser_toggle |->
            CircleButton(eraser_button_pos[1], eraser_button_pos[2],
                         TOGGLE_RADIUS, LIGHT_GRAY, MENU_ERASER_TOGGLE, FALSE,
                         None)]

\* Menu.get_all_buttons, mutated: the toggles come before the panels
get_all_buttons_toggles_first(menu) ==
    <<menu.board_toggle, menu.pen_toggle, menu.color_toggle,
      menu.eraser_toggle, menu.clear_button>>
        \o menu.color_buttons \o menu.pen_size_buttons \o menu.shape_buttons

\* Menu.get_all_buttons
get_all_buttons(menu) ==
    <<menu.clear_button>> \o menu.color_buttons \o menu.pen_size_buttons
        \o menu.shape_buttons
        \o <<menu.board_toggle, menu.pen_toggle, menu.color_toggle,
             menu.eraser_toggle>>


(***************************************************************************)
(* modules/hand_tracker.py: HandTracker.  A hand is a record whose field   *)
(* landmark maps a landmark index to a point [x, y]; x and y are the       *)
(* detector's frame fractions, counted in units of 1 / NormUnits.  What    *)
(* the detector reports for a frame is [multi_hand_landmarks |-> hands].   *)
(***************************************************************************)
INDEX_FINGER_KEY == "INDEX_FINGER"
MIDDLE_FINGER_KEY == "MIDDLE_FINGER"
SELECTED_HAND_INDEX == 0

FINGER_LANDMARKS ==
    [INDEX_FINGER |-> [MCP |-> 5, PIP |-> 6, DIP |-> 7, TIP |-> 8],
     MIDDLE_FINGER |-> [MCP |-> 9, PIP |-> 10, DIP |-> 11, TIP |-> 12]]

\* The frame fraction 1.0; a pixel is 3 units wide and 4 units high.
NormUnits == 3 * DEFAULT_WIDTH

\* frame.shape of a camera frame: (height, width, channels)
ImageShape == <<DEFAULT_HEIGHT, DEFAULT_WIDTH, 3>>

\* HandTracker.__init__
HandTracker ==
    [prev_index_up |-> FALSE,
     prev_middle_up |-> FALSE,
     is_clicked_prev |-> FALSE,
     hand_landmarks |-> None,
     is_drawing_mode |-> FALSE,
     draw_modes |-> << >>]

\* HandTracker.has_landmarks
has_landmarks(tracker) ==
    IF tracker.hand_landmarks = None THEN FALSE
    ELSE tracker.hand_landmarks.multi_hand_landmarks # << >>

\* HandTracker.is_finger_raised, mutated: a tie of tip and distal joint passes
is_finger_raised_weak(hand_landmark, joints) ==
    LET y_coords == [key \in {"TIP", "DIP", "PIP", "MCP"} |->
                        hand_landmark.landmark[joints[key]].y]
    IN  /\ y_coords["TIP"] <= y_coords["DIP"]
        /\ y_coords["DIP"] < y_coords["PIP"]
        /\ y_coords["PIP"] < y_coords["MCP"]

\* HandTracker.is_finger_raised
is_finger_raised(hand_landmark, joints) ==
    LET y_coords == [key \in {"TIP", "DIP", "PIP", "MCP"} |->
                        hand_landmark.landmark[joints[key]].y]
    IN  /\ y_coords["TIP"] < y_coords["DIP"]
        /\ y_coords["DIP"] < y_coords["PIP"]
        /\ y_coords["PIP"] < y_coords["MCP"]

\* HandTracker.check_hand_fingers
check_hand_fingers(hand_landmark) ==
    [finger_name \in DOMAIN FINGER_LANDMARKS |->
        is_finger_raised(hand_landmark, FINGER_LANDMARKS[finger_name])]

\* HandTracker.detect_raised_fingers
detect_raised_fingers(tracker) ==
    IF ~has_landmarks(tracker) THEN << >>
    ELSE LET hands == tracker.hand_landmarks.multi_hand_landmarks
         IN  [i \in 1..Len(hands) |-> check_hand_fingers(hands[i])]

\* HandTracker.update_drawing_mode, mutated: the middle finger is not looked
\* at
update_drawing_mode_index_only(tracker, raised_fingers) ==
    [tracker EXCEPT !.draw_modes =
        [i \in 1..Len(raised_fingers) |->
            raised_fingers[i][INDEX_FINGER_KEY]]]

\* HandTracker.update_drawing_mode
update_drawing_mode(tracker, raised_fingers) ==
    [tracker EXCEPT !.draw_modes =
        [i \in 1..Len(raised_fingers) |->
            LET index_up == raised_fingers[i][INDEX_FINGER_KEY]
                middle_up == raised_fingers[i][MIDDLE_FINGER_KEY]
            IN  index_up /\ ~middle_up]]

\* HandTracker.draw_raised_fingers; the markers it paints on the frame are
\* not followed
draw_raised_fingers(tracker) ==
    update_drawing_mode(tracker, detect_raised_fingers(tracker))

\* HandTracker.update_landmarks; detection is what the detector reports
update_landmarks(tracker, detection) ==
    [tracker EXCEPT !.hand_landmarks = detection]

\* HandTracker.process_frame
HandTracker_process_frame(tracker, detection) ==
    LET updated == update_landmarks(tracker, detection)
    IN  IF has_landmarks(updated) THEN draw_raised_fingers(updated)
        ELSE updated

\* HandTracker.normalize_coordinates
normalize_coordinates(landmark, image_shape) ==
    LET image_height == image_shape[1]
        image_width == image_shape[2]
    IN  <<Trunc(landmark.x * image_width, NormUnits),
          Trunc(landmark.y * image_height, NormUnits)>>

\* HandTracker.get_hand_position, mutated: the hand detected last is selected
get_hand_position_last_hand(tracker, image_shape) ==
    IF ~has_landmarks(tracker) THEN << >>
    ELSE LET selected_hand ==
                 tracker.hand_landmarks.multi_hand_landmarks[
                     Len(tracker.hand_landmarks.multi_hand_landmarks)]
         IN  [finger_name \in DOMAIN FINGER_LANDMARKS |->
                 normalize_coordinates(
                     selected_hand.landmark[
                         FINGER_LANDMARKS[finger_name]["TIP"]],
                     image_shape)]

\* HandTracker.get_hand_position; the empty dict is << >>
get_hand_position(tracker, image_shape) ==
    IF ~has_landmarks(tracker) THEN << >>
    ELSE LET selected_hand ==
                 tracker.hand_landmarks.multi_hand_landmarks[
                     SELECTED_HAND_INDEX + 1]
         IN  [finger_name \in DOMAIN FINGER_LANDMARKS |->
                 normalize_coordinates(
                     selected_hand.landmark[
                         FINGER_LANDMARKS[finger_name]["TIP"]],
                     image_shape)]

\* dict.get(key, None)
DictGet(dict, key) == IF key \in DOMAIN dict THEN dict[key] ELSE None

\* HandTracker.toggle_drawing_mode, mutated: the flag is set, not flipped
toggle_drawing_mode_set(tracker) ==
    [tracker EXCEPT !.is_drawing_mode = TRUE]

\* HandTracker.toggle_drawing_mode
toggle_drawing_mode(tracker) ==
    [tracker EXCEPT !.is_drawing_mode = ~tracker.is_drawing_mode]

\* HandTracker.get_current_finger_states
get_current_finger_states(hand) ==
    <<is_finger_raised(hand, FINGER_LANDMARKS[INDEX_FINGER_KEY]),
      is_finger_raised(hand, FINGER_LANDMARKS[MIDDLE_FINGER_KEY])>>

\* HandTracker.is_click_happening, mutated: the armed pose is not required
is_click_happening_unarmed(tracker, index_up, middle_up) ==
    LET middle_curled == ~middle_up
    IN  index_up /\ middle_curled /\ ~tracker.is_clicked_prev

\* HandTracker.is_click_happening
is_click_happening(tracker, index_up, middle_up) ==
    LET middle_curled == ~middle_up
        was_ready == tracker.prev_index_up /\ tracker.prev_middle_up
    IN  was_ready /\ index_up /\ middle_curled /\ ~tracker.is_clicked_prev

\* HandTracker.update_previous_states, mutated: the click result is not kept
update_previous_states_unlatched(tracker, index_up, middle_up, click_happened) ==
    [tracker EXCEPT !.prev_index_up = index_up,
                    !.prev_middle_up = middle_up]

\* HandTracker.update_previous_states
update_previous_states(tracker, index_up, middle_up, click_happened) ==
    [tracker EXCEPT !.prev_index_up = index_up,
                    !.prev_middle_up = middle_up,
                    !.is_clicked_prev = click_happened]

\* HandTracker.detect_click: the tracker after the call and what it returns
detect_click(tracker) ==
    IF ~has_landmarks(tracker) THEN [tracker |-> tracker, ret |-> FALSE]
    ELSE LET hand == tracker.hand_landmarks.multi_hand_landmarks[
                         SELECTED_HAND_INDEX + 1]
             states == get_current_finger_states(hand)
             click_happened == is_click_happening(tracker, states[1], states[2])
         IN  [tracker |-> update_previous_states(
                              tracker, states[1], states[2], click_happened),
              ret |-> click_happened]

(***************************************************************************)
(* Menu.handle_interaction: the menu after the call, the button returned   *)
(* (or None), and the buttons whose hit test was run, in order.            *)
(***************************************************************************)
\* handle_interaction, lines 313-332: the status message a click on button
\* leaves
message_for(menu, button) ==
    LET cleared == IF ~Contains(get_all_buttons(menu), button) THEN << >>
                   ELSE menu.last_message
        colour == IF Contains(menu.color_buttons, button)
                  THEN <<"Selected Color: ", button.color>>
                  ELSE cleared
        size == IF Contains(menu.pen_size_buttons, button)
                THEN <<"Pen Thickness: ", button.value>>
                ELSE colour
    IN  IF button = menu.eraser_toggle THEN <<"Eraser Selected">> ELSE size

\* handle_interaction, the loop body for a button that is hit, mutated: the
\* message is set before is_clicking is looked at
on_hit_eager(menu, button, is_clicking) ==
    [menu |-> [menu EXCEPT !.current_hover = button,
                           !.last_message = message_for(menu, button)],
     ret |-> IF is_clicking THEN button ELSE None]

\* handle_interaction, the loop body for a button that is hit (lines 307-334)
on_hit(menu, button, is_clicking) ==
    LET hovered == [menu EXCEPT !.current_hover = button]
    IN  IF ~is_clicking THEN [menu |-> hovered, ret |-> None]
        ELSE [menu |-> [hovered EXCEPT
                           !.last_message = message_for(hovered, button)],
              ret |-> button]

RECURSIVE for_button(_, _, _, _, _, _)
\* handle_interaction, the for loop from the i-th button of the registry on;
\* tested lists the calls of is_over made so far and what each returned
for_button(menu, registry, i, finger_pos, is_clicking, tested) ==
    IF i > Len(registry)
    THEN [menu |-> [menu EXCEPT !.current_hover = None],
          ret |-> None, tested |-> tested]
    ELSE LET button == registry[i]
             over == is_over(button, finger_pos[1], finger_pos[2])
             logged == Append(tested, [button |-> button, over |-> over])
         IN  IF ~over
             THEN for_button(menu, registry, i + 1, finger_pos, is_clicking,
                             logged)
             ELSE LET hit == on_hit(menu, button, is_clicking)
                  IN  [menu |-> hit.menu, ret |-> hit.ret, tested |-> logged]

\* Menu.handle_interaction
handle_interaction(menu, finger_pos, is_clicking) ==
    IF finger_pos = None
    THEN [menu |-> [menu EXCEPT !.current_hover = None],
          ret |-> None, tested |-> << >>]
    ELSE for_button(menu, get_all_buttons(menu), 1, finger_pos, is_clicking,
                    << >>)

(***************************************************************************)
(* The drawing surface.  The canvas is followed at the pixels of Pixels    *)
(* (canvas coordinates); cv.line and cv.circle colour the followed pixels  *)
(* that lie within the stroke.                                             *)
(***************************************************************************)
Pixels == {<<100, 100>>, <<130, 100>>, <<160, 100>>, <<130, 140>>}

Sq(n) == n * n

\* whether pixel p lies within thickness / 2 of the segment from a to b
OnSegment(p, a, b, thickness) ==
    LET abx == b[1] - a[1]
        aby == b[2] - a[2]
        len2 == Sq(abx) + Sq(aby)
        dot == (p[1] - a[1]) * abx + (p[2] - a[2]) * aby
        cross == abx * (p[2] - a[2]) - aby * (p[1] - a[1])
    IN  IF len2 = 0 \/ dot <= 0
        THEN 4 * (Sq(p[1] - a[1]) + Sq(p[2] - a[2])) <= Sq(thickness)
        ELSE IF dot >= len2
        THEN 4 * (Sq(p[1] - b[1]) + Sq(p[2] - b[2])) <= Sq(thickness)
        ELSE 4 * Sq(cross) <= Sq(thickness) * len2

\* cv.line(img, pt1, pt2, color, thickness)
cv_line(img, pt1, pt2, color, thickness) ==
    [p \in DOMAIN img |->
        IF OnSegment(p, pt1, pt2, thickness) THEN color ELSE img[p]]

\* cv.circle(img, center, radius, color, thickness=cv.FILLED)
cv_circle(img, center, radius, color) ==
    [p \in DOMAIN img |->
        IF Sq(p[1] - center[1]) + Sq(p[2] - center[2]) <= Sq(radius)
        THEN color ELSE img[p]]

(***************************************************************************)
(* main.py: VirtualCanvas.  The field trace is not a field of the program: *)
(* it collects, during one frame, the calls made on the canvas, what the    *)
(* click detector and the menu returned, the methods process_frame called  *)
(* in the order of the calls, and the picture that was displayed over the  *)
(* canvas region.                                                          *)
(***************************************************************************)
NoTrace ==
    [cv_calls |-> << >>, ui_called |-> FALSE, click |-> FALSE,
     clicked |-> None, tested |-> << >>, steps |-> << >>, shown |-> None]

\* VirtualCanvas.setup_menu
setup_menu ==
    LET frame_width == DEFAULT_WIDTH
        frame_height == DEFAULT_HEIGHT
        board_toggle_pos ==
            <<Scaled(frame_width, BOARD_TOOGLE_OFFSET_X),
              Scaled(frame_height, TOGGLE_OFFSET_Y)>>
        pen_toggle_pos ==
            <<Scaled(frame_width, PEN_TOGGLE_OFFSET_X), board_toggle_pos[2]>>
    IN  Menu(board_toggle_pos, pen_toggle_pos)

\* VirtualCanvas.__init__ followed by a successful initialize():
\* setup_menu and setup_canvas
VirtualCanvas ==
    [tracker |-> HandTracker,
     menu |-> setup_menu,
     canvas |-> [p \in Pixels |-> WHITE],
     canvas_size |-> <<Scaled(DEFAULT_HEIGHT, CANVAS_SIZE_MULTIPLIER),
                       Scaled(DEFAULT_WIDTH, CANVAS_SIZE_MULTIPLIER)>>,
     canvas_origin |-> <<Scaled(DEFAULT_HEIGHT, CANVAS_OFFSET_Y),
                         Scaled(DEFAULT_WIDTH, CANVAS_OFFSET_X)>>,
     current_color |-> COLORS[1],
     brush_size |-> DEFAULT_BRUSH_SIZE,
     current_tool |-> "",
     is_drawing |-> FALSE,
     prev_pos |-> None,
     show_canvas |-> FALSE,
     show_colors |-> FALSE,
     show_brush_sizes |-> FALSE,
     is_eraser |-> FALSE,
     trace |-> NoTrace]

\* VirtualCanvas.get_finger_info, mutated: the draw signal is always true
get_finger_info_always_draw(self) ==
    LET finger_pos == get_hand_position(self.tracker, ImageShape)
    IN  [index_pos |-> DictGet(finger_pos, INDEX_FINGER_KEY),
         will_draw |-> TRUE]

\* VirtualCanvas.get_finger_info
get_finger_info(self) ==
    LET finger_pos == get_hand_position(self.tracker, ImageShape)
        draw_modes == self.tracker.draw_modes
    IN  [index_pos |-> DictGet(finger_pos, INDEX_FINGER_KEY),
         will_draw |-> IF draw_modes # << >> THEN draw_modes[1] ELSE FALSE]

\* VirtualCanvas.is_within_canvas, mutated: the far edges count as inside
is_within_canvas_closed(self, canvas_x, canvas_y) ==
    /\ 0 <= canvas_x /\ canvas_x <= self.canvas_size[2]
    /\ 0 <= canvas_y /\ canvas_y <= self.canvas_size[1]

\* VirtualCanvas.is_within_canvas
is_within_canvas(self, canvas_x, canvas_y) ==
    /\ 0 <= canvas_x /\ canvas_x < self.canvas_size[2]
    /\ 0 <= canvas_y /\ canvas_y < self.canvas_size[1]

\* VirtualCanvas.draw_on_canvas, mutated: the line is drawn in eraser mode
\* too
draw_on_canvas_eraser_line(self, canvas_x, canvas_y) ==
    LET prev_pos == IF self.prev_pos = None THEN <<canvas_x, canvas_y>>
                    ELSE self.prev_pos
        radius == self.brush_size * ERASER_BRUSH_MULTIPLIER
        circle == [fn |-> "circle", center |-> <<canvas_x, canvas_y>>,
                   radius |-> radius, color |-> WHITE]
        line == [fn |-> "line", pt1 |-> prev_pos,
                 pt2 |-> <<canvas_x, canvas_y>>,
                 color |-> self.current_color, thickness |-> self.brush_size]
        erased == IF self.is_eraser
                  THEN cv_circle(self.canvas, circle.center, radius, WHITE)
                  ELSE self.canvas
        drawn == cv_line(erased, line.pt1, line.pt2, line.color,
                         line.thickness)
    IN  [self EXCEPT
            !.canvas = drawn,
            !.prev_pos = <<canvas_x, canvas_y>>,
            !.trace.cv_calls =
                @ \o (IF self.is_eraser THEN <<circle>> ELSE << >>)
                  \o <<line>>]

\* VirtualCanvas.draw_on_canvas
draw_on_canvas(self, canvas_x, canvas_y) ==
    LET prev_pos == IF self.prev_pos = None THEN <<canvas_x, canvas_y>>
                    ELSE self.prev_pos
        radius == self.brush_size * ERASER_BRUSH_MULTIPLIER
        circle == [fn |-> "circle", center |-> <<canvas_x, canvas_y>>,
                   radius |-> radius, color |-> WHITE]
        line == [fn |-> "line", pt1 |-> prev_pos,
                 pt2 |-> <<canvas_x, canvas_y>>,
                 color |-> self.current_color, thickness |-> self.brush_size]
        erased == IF self.is_eraser
                  THEN cv_circle(self.canvas, circle.center, radius, WHITE)
                  ELSE self.canvas
        drawn == IF ~self.is_eraser
                 THEN cv_line(erased, line.pt1, line.pt2, line.color,
                              line.thickness)
                 ELSE erased
    IN  [self EXCEPT
            !.canvas = drawn,
            !.prev_pos = <<canvas_x, canvas_y>>,
            !.trace.cv_calls =
                @ \o (IF self.is_eraser THEN <<circle>> ELSE << >>)
                  \o (IF ~self.is_eraser THEN <<line>> ELSE << >>)]

\* VirtualCanvas.handle_drawing, mutated: a point off the canvas keeps the
\* previous point
handle_drawing_keep(self, finger_pos) ==
    IF ~self.show_canvas \/ finger_pos = None THEN self
    ELSE LET canvas_x == finger_pos[1] - self.canvas_origin[2]
             canvas_y == finger_pos[2] - self.canvas_origin[1]
         IN  IF ~is_within_canvas(self, canvas_x, canvas_y) THEN self
             ELSE draw_on_canvas(self, canvas_x, canvas_y)

\* VirtualCanvas.handle_drawing
handle_drawing(self, finger_pos) ==
    IF ~self.show_canvas \/ finger_pos = None THEN self
    ELSE LET canvas_x == finger_pos[1] - self.canvas_origin[2]
             canvas_y == finger_pos[2] - self.canvas_origin[1]
         IN  IF ~is_within_canvas(self, canvas_x, canvas_y)
             THEN [self EXCEPT !.prev_pos = None]
             ELSE draw_on_canvas(self, canvas_x, canvas_y)

\* VirtualCanvas.toggle_ui_states, mutated: the branch of the color toggle
\* does not return and runs into the branch of the pen-size toggle
toggle_ui_states_fallthrough(self, button) ==
    IF button.label = BOARD_TOGGLE
    THEN [self EXCEPT !.tracker = toggle_drawing_mode(self.tracker),
                      !.show_canvas = ~self.show_canvas]
    ELSE IF button.label = COLORS_TOGGLE
    THEN [self EXCEPT !.show_colors = ~self.show_colors,
                      !.show_brush_sizes = ~self.show_brush_sizes]
    ELSE IF button.label = BRUSH_SIZE_TOGGLE
    THEN [self EXCEPT !.show_brush_sizes = ~self.show_brush_sizes]
    ELSE IF button.label = ERASER_TOGGLE
    THEN [self EXCEPT !.is_eraser = ~self.is_eraser]
    ELSE self

\* VirtualCanvas.toggle_ui_states
toggle_ui_states(self, button) ==
    IF button.label = BOARD_TOGGLE
    THEN [self EXCEPT !.tracker = toggle_drawing_mode(self.tracker),
                      !.show_canvas = ~self.show_canvas]
    ELSE IF button.label = COLORS_TOGGLE
    THEN [self EXCEPT !.show_colors = ~self.show_colors]
    ELSE IF button.label = BRUSH_SIZE_TOGGLE
    THEN [self EXCEPT !.show_brush_sizes = ~self.show_brush_sizes]
    ELSE IF button.label = ERASER_TOGGLE
    THEN [self EXCEPT !.is_eraser = ~self.is_eraser]
    ELSE self

\* VirtualCanvas.select_color, mutated: the eraser flag is left as it is
select_color_keep_eraser(self, button) ==
    IF Contains(self.menu.color_buttons, button)
    THEN [self EXCEPT !.current_color = button.color]
    ELSE self

\* VirtualCanvas.select_color
select_color(self, button) ==
    IF Contains(self.menu.color_buttons, button)
    THEN [self EXCEPT !.current_color = button.color, !.is_eraser = FALSE]
    ELSE self

\* VirtualCanvas.select_size
select_size(self, button) ==
    IF Contains(self.menu.pen_size_buttons, button)
    THEN [self EXCEPT !.brush_size = button.value]
    ELSE self

\* VirtualCanvas.select_shape
select_shape(self, button) ==
    IF Contains(self.menu.shape_buttons, button)
    THEN [self EXCEPT !.current_tool = button.label, !.is_eraser = FALSE]
    ELSE self

\* VirtualCanvas.clear_canvas, mutated: only the pixels that carry the
\* current color are refilled
clear_canvas_current_color(self, button) ==
    IF button = self.menu.clear_button
    THEN [self EXCEPT !.canvas =
             [p \in DOMAIN self.canvas |->
                 IF self.canvas[p] = self.current_color THEN WHITE
                 ELSE self.canvas[p]]]
    ELSE self

\* VirtualCanvas.clear_canvas
clear_canvas(self, button) ==
    IF button = self.menu.clear_button
    THEN [self EXCEPT !.canvas = [p \in DOMAIN self.canvas |-> WHITE]]
    ELSE self

\* VirtualCanvas.handle_button_action
handle_button_action(self, button) ==
    clear_canvas(
        select_shape(
            select_size(
                select_color(toggle_ui_states(self, button), button),
                button),
            button),
        button)

\* VirtualCanvas.handle_ui_interaction, mutated: a click is dispatched only
\* to a button that Menu.draw_ui paints
handle_ui_interaction_visible_only(self, finger_pos) ==
    IF finger_pos = None THEN self
    ELSE LET detected == detect_click(self.tracker)
             handled == handle_interaction(self.menu, finger_pos, detected.ret)
             clicked_button == handled.ret
             painted ==
                \/ clicked_button = self.menu.board_toggle
                \/ /\ self.show_canvas
                   /\ Contains(self.menu.color_buttons, clicked_button)
                         => self.show_colors
                   /\ Contains(self.menu.pen_size_buttons, clicked_button)
                         => self.show_brush_sizes
             after == [self EXCEPT
                          !.tracker = detected.tracker,
                          !.menu = handled.menu,
                          !.trace.ui_called = TRUE,
                          !.trace.click = detected.ret,
                          !.trace.clicked = clicked_button,
                          !.trace.tested = handled.tested]
         IN  IF clicked_button # None /\ painted
             THEN handle_button_action(after, clicked_button)
             ELSE after

\* VirtualCanvas.handle_ui_interaction; Menu.draw_ui only paints the frame
handle_ui_interaction(self, finger_pos) ==
    IF finger_pos = None THEN self
    ELSE LET detected == detect_click(self.tracker)
             handled == handle_interaction(self.menu, finger_pos, detected.ret)
             clicked_button == handled.ret
             after == [self EXCEPT
                          !.tracker = detected.tracker,
                          !.menu = handled.menu,
                          !.trace.ui_called = TRUE,
                          !.trace.click = detected.ret,
                          !.trace.clicked = clicked_button,
                          !.trace.tested = handled.tested]
         IN  IF clicked_button # None
             THEN handle_button_action(after, clicked_button)
             ELSE after

\* the camera picture under the canvas region, at the pixels followed
FrameRegion == [p \in Pixels |-> MID_GRAY]

\* cv.addWeighted with alpha = beta = gamma = 0.5 on one channel: the sum
\* a / 2 + b / 2 + 0.5 rounded to the nearest integer, a half to the even one
addWeighted(a, b) ==
    IF (a + b) % 2 = 1 THEN (a + b + 1) \div 2
    ELSE IF ((a + b) \div 2) % 2 = 0 THEN (a + b) \div 2
    ELSE (a + b) \div 2 + 1

\* VirtualCanvas.blend_canvas_onto_frame, mutated: the blend is written to
\* the canvas too
blend_canvas_in_place(self, frame_region) ==
    LET blended == [p \in DOMAIN frame_region |->
                       [c \in 1..3 |->
                           addWeighted(frame_region[p][c], self.canvas[p][c])]]
    IN  [self EXCEPT !.trace.shown = blended, !.canvas = blended]

\* VirtualCanvas.blend_canvas_onto_frame: the blend of the frame region and
\* the canvas is written to the frame region
blend_canvas_onto_frame(self, frame_region) ==
    LET blended == [p \in DOMAIN frame_region |->
                       [c \in 1..3 |->
                           addWeighted(frame_region[p][c], self.canvas[p][c])]]
    IN  [self EXCEPT !.trace.shown = blended]

\* self after process_frame called the method named step
Called(self, step) == [self EXCEPT !.trace.steps = Append(@, step)]

\* VirtualCanvas.process_frame: frame is None or what the detector reports
\* for the flipped frame; key is what cv.waitKey returns.
process_frame(self, frame, key) ==
    IF frame = None
    THEN [self |-> self, ret |-> FALSE, index_pos |-> None,
          will_draw |-> FALSE]
    ELSE LET tracked == [Called(self, "tracker.process_frame") EXCEPT
                            !.tracker =
                               HandTracker_process_frame(self.tracker, frame)]
             info == get_finger_info(tracked)
             index_pos == info.index_pos
             will_draw == info.will_draw
             reset == IF ~will_draw THEN [tracked EXCEPT !.prev_pos = None]
                      ELSE tracked
             drawn == IF reset.tracker.is_drawing_mode /\ will_draw
                      THEN handle_drawing(Called(reset, "handle_drawing"),
                                          index_pos)
                      ELSE reset
             done == handle_ui_interaction(
                         Called(drawn, "handle_ui_interaction"), index_pos)
             shown == IF done.show_canvas
                      THEN blend_canvas_onto_frame(
                               Called(done, "blend_canvas_onto_frame"),
                               FrameRegion)
                      ELSE done
         IN  [self |-> Called(shown, "cv.imshow"), ret |-> key # ESC_KEY,
              index_pos |-> index_pos, will_draw |-> will_draw]

(***************************************************************************)
(* What the detector can report.  A hand is described by the pixel its     *)
(* index fingertip is at and by the shape of its index and middle finger:  *)
(* "up" has the four joints in strictly rising y from the tip to the       *)
(* metacarpal joint, "tie" has tip and distal joint level, "down" has the  *)
(* tip below the other joints.                                             *)
(***************************************************************************)
Shapes == {"up", "tie", "down"}

\* the landmarks MCP, PIP, DIP, TIP of one finger whose tip is at (x, y)
Finger(joints, x, y, shape) ==
    LET step == 40
        dip == CASE shape = "up" -> y + step
                 [] shape = "tie" -> y
                 [] OTHER -> y - step
        pip == IF shape = "down" THEN y - 2 * step ELSE y + 2 * step
        mcp == IF shape = "down" THEN y - 3 * step ELSE y + 3 * step
    IN  [i \in {joints[k] : k \in DOMAIN joints} |->
            CASE i = joints["TIP"] -> [x |-> x, y |-> y]
              [] i = joints["DIP"] -> [x |-> x, y |-> dip]
              [] i = joints["PIP"] -> [x |-> x, y |-> pip]
              [] OTHER -> [x |-> x, y |-> mcp]]

\* the hand of description d: its index fingertip lies inside pixel d.at,
\* its middle fingertip 20 pixels to the right and 2 pixels higher
Hand(d) ==
    LET x == d.at[1] * (NormUnits \div DEFAULT_WIDTH) + 1
        y == d.at[2] * (NormUnits \div DEFAULT_HEIGHT) + 2
    IN  [landmark |->
            Finger(FINGER_LANDMARKS[INDEX_FINGER_KEY], x, y, d.index)
                @@ Finger(FINGER_LANDMARKS[MIDDLE_FINGER_KEY],
                          x + 60, y - 8, d.middle)]

\* what the detector reports for the hands described by ds
Detection(ds) ==
    [multi_hand_landmarks |-> [i \in 1..Len(ds) |-> Hand(ds[i])]]

\* cv.waitKey when no key was pressed
NoKey == -1

\* the last n entries of s
LastN(s, n) == IF Len(s) <= n THEN s ELSE SubSeq(s, Len(s) - n + 1, Len(s))

(***************************************************************************)
(* The frame loop of run(): one step is one call of process_frame.         *)
(***************************************************************************)
Init ==
    /\ app = VirtualCanvas
    /\ hist = << >>
    /\ pc = "loop"

\* one pass of `while self.process_frame()`: the camera hands over a frame
\* on which the detector finds the hands described by ds; keep is the
\* number of frames hist remembers
ProcessFrame(ds, key, keep) ==
    /\ pc = "loop"
    /\ \E r \in {process_frame(app, Detection(ds), key)} :
         \E seen \in {[hands |-> ds,
                       index_pos |-> r.index_pos,
                       will_draw |-> r.will_draw,
                       click |-> r.self.trace.click,
                       clicked |-> r.self.trace.clicked,
                       cv_calls |-> r.self.trace.cv_calls,
                       board_shown |-> app.show_canvas,
                       prev_pos_before |-> app.prev_pos,
                       canvas_before |-> app.canvas,
                       steps |-> r.self.trace.steps]} :
            /\ app' = [r.self EXCEPT !.trace = NoTrace]
            /\ hist' = LastN(Append(hist, seen), keep)
            /\ pc' = IF r.ret THEN "loop" ELSE "done"

\* the poses the claims speak of: armed is index and middle finger up,
\* released is the index finger alone
Armed(at) == [at |-> at, index |-> "up", middle |-> "up"]
Released(at) == [at |-> at, index |-> "up", middle |-> "down"]

(***************************************************************************)
(* The gesture specification: the poses of the selected hand, with and     *)
(* without a second hand, and frames without a hand; the fingertip stays   *)
(* away from every button.                                                 *)
(***************************************************************************)
ClickHist == 4

Away == <<300, 300>>

ClickHands ==
    LET first == [at : {Away}, index : {"up", "tie"}, middle : {"up", "down"}]
    IN  {<< >>} \cup {<<h>> : h \in first}
            \cup {<<Armed(Away), Released(Away)>>,
                  <<Released(Away), Armed(Away)>>}

NextClick == \E ds \in ClickHands : ProcessFrame(ds, NoKey, ClickHist)

SpecClick == Init /\ [][NextClick]_vars

(***************************************************************************)
(* The stroke specification: the armed pose, and the release pose at the   *)
(* board toggle, at two points of the canvas and at the first pixel right  *)
(* of the canvas, and frames without a hand.                               *)
(***************************************************************************)
DrawHist == 3

\* frame pixels of the canvas points (100, 100) and (160, 100), and of the
\* point (505, 100) off the canvas
P1 == <<132, 196>>
P3 == <<192, 196>>
OffCanvas == <<537, 196>>
AtBoard == <<64, 48>>

DrawHands ==
    {<< >>, <<Armed(AtBoard)>>}
        \cup {<<Released(at)>> : at \in {AtBoard, P1, P3, OffCanvas}}

NextDraw == \E ds \in DrawHands : ProcessFrame(ds, NoKey, DrawHist)

SpecDraw == Init /\ [][NextDraw]_vars

(***************************************************************************)
(* What the claims are stated over: the frames hist remembers, the last    *)
(* entry being the frame just processed, read by the description of the    *)
(* hands and not by the tracker's own tests.                               *)
(***************************************************************************)
Last == hist[Len(hist)]

HasHand(f) == f.hands # << >>
IndexUp(f) == HasHand(f) /\ f.hands[1].index = "up"
MiddleUp(f) == HasHand(f) /\ f.hands[1].middle = "up"
IsArmed(f) == IndexUp(f) /\ MiddleUp(f)
IsReleased(f) == IndexUp(f) /\ ~MiddleUp(f)

\* the frames from..from + Len(poses) - 1 of hist show the poses "A" (armed),
\* "R" (released) and "N" (no hand) in this order
Shows(from, poses) ==
    /\ from >= 1
    /\ from + Len(poses) - 1 <= Len(hist)
    /\ \A k \in 1..Len(poses) :
          LET f == hist[from + k - 1]
          IN  CASE poses[k] = "A" -> IsArmed(f)
                [] poses[k] = "R" -> IsReleased(f)
                [] OTHER -> ~HasHand(f)

\* the click results of the frames from..from + n - 1 of hist
Clicks(from, n) == [k \in 1..n |-> hist[from + k - 1].click]

(***************************************************************************)
(* C1.  On every frame in which a hand is detected, a click is reported    *)
(* iff the previous index and middle state were both up, the index finger  *)
(* is raised now, the middle finger is not, and the previous frame         *)
(* reported no click; afterwards prev_index_up, prev_middle_up and         *)
(* is_clicked_prev hold this frame's index state, middle state and click   *)
(* result.                                                                 *)
(***************************************************************************)
C1_ClickRule ==
    [][ (hist' # << >> /\ HasHand(hist'[Len(hist')])) =>
          LET f == hist'[Len(hist')]
              before == app.tracker
              after == app'.tracker
          IN  /\ f.click = (/\ before.prev_index_up
                            /\ before.prev_middle_up
                            /\ IndexUp(f)
                            /\ ~MiddleUp(f)
                            /\ ~before.is_clicked_prev)
              /\ after.prev_index_up = IndexUp(f)
              /\ after.prev_middle_up = MiddleUp(f)
              /\ after.is_clicked_prev = f.click ]_vars

\* a frame with a hand reported a click
C1_Witness ==
    /\ hist # << >>
    /\ HasHand(Last)
    /\ Last.click
    /\ app.tracker.is_clicked_prev

(***************************************************************************)
(* C2.  Over frames that each show the selected hand, a click fires        *)
(* exactly on a release frame that directly follows an armed frame: never  *)
(* on two consecutive frames, never again while the release pose is held,  *)
(* and again on every new armed-then-release transition.  The frames       *)
(* armed, armed, released, released give one click, on the third; the      *)
(* frames armed, released, armed, released give two, on the second and the *)
(* fourth.                                                                 *)
(***************************************************************************)
C2_ClickOncePerHold ==
    /\ \A i \in 2..Len(hist) :
          (HasHand(hist[i - 1]) /\ HasHand(hist[i])) =>
             /\ hist[i].click = (IsArmed(hist[i - 1]) /\ IsReleased(hist[i]))
             /\ ~(hist[i - 1].click /\ hist[i].click)
    /\ \A i \in 1..Len(hist) : \A j \in (i + 1)..Len(hist) :
          (\A k \in i..j : IsReleased(hist[k])) => ~hist[j].click
    /\ \A from \in 1..Len(hist) :
          /\ Shows(from, <<"A", "A", "R", "R">>) =>
                Clicks(from, 4) = <<FALSE, FALSE, TRUE, FALSE>>
          /\ Shows(from, <<"A", "R", "A", "R">>) =>
                Clicks(from, 4) = <<FALSE, TRUE, FALSE, TRUE>>

\* the frames armed, armed, released, released were processed
C2_Witness ==
    /\ Len(hist) >= 4
    /\ Shows(Len(hist) - 3, <<"A", "A", "R", "R">>)
    /\ hist[Len(hist) - 1].click

(***************************************************************************)
(* C3.  A frame without a hand yields no click and leaves prev_index_up,   *)
(* prev_middle_up and is_clicked_prev all false, so that the frames armed, *)
(* no hand, released yield no click.                                       *)
(***************************************************************************)
C3_NoHandAdvances ==
    /\ (hist # << >> /\ ~HasHand(Last)) =>
          /\ ~Last.click
          /\ ~app.tracker.prev_index_up
          /\ ~app.tracker.prev_middle_up
          /\ ~app.tracker.is_clicked_prev
    /\ \A from \in 1..Len(hist) :
          Shows(from, <<"A", "N", "R">>) => ~hist[from + 2].click

\* the second half of C3 alone: armed, no hand, released yields no click
C3_NoClickAcrossGap ==
    \A from \in 1..Len(hist) :
        Shows(from, <<"A", "N", "R">>) => ~hist[from + 2].click

(***************************************************************************)
(* C4.  The draw signal of a frame is (index raised and middle not raised) *)
(* of the selected hand on that frame, and false on a frame without a      *)
(* hand.                                                                   *)
(***************************************************************************)
C4_DrawSignal ==
    hist # << >> => (Last.will_draw = IsReleased(Last))

\* the canvas point under the index fingertip of frame f
Local(f) ==
    <<f.index_pos[1] - app.canvas_origin[2],
      f.index_pos[2] - app.canvas_origin[1]>>

\* the claims' canvas bounds [0, canvasWidth) x [0, canvasHeight)
InCanvas(p) ==
    /\ 0 <= p[1] /\ p[1] < app.canvas_size[2]
    /\ 0 <= p[2] /\ p[2] < app.canvas_size[1]

\* frame f began with the board visible and shows the release pose with the
\* index fingertip at frame pixel at
DrawsAt(f, at) ==
    /\ f.board_shown
    /\ IsReleased(f)
    /\ f.hands[1].at = at

\* a pen line from canvas point a to canvas point b is among the calls
HasLine(calls, a, b) ==
    \E k \in 1..Len(calls) :
        calls[k].fn = "line" /\ calls[k].pt1 = a /\ calls[k].pt2 = b

(***************************************************************************)
(* C5.  After a frame without a hand prev_pos is none, so that with the    *)
(* board visible the frames draw at P1, no hand, draw at P3 draw no line   *)
(* from P1 to P3.                                                          *)
(***************************************************************************)
C5_AbsentResets ==
    /\ (hist # << >> /\ ~HasHand(Last)) => app.prev_pos = None
    /\ \A from \in 1..(Len(hist) - 2) :
          (/\ DrawsAt(hist[from], P1)
           /\ ~HasHand(hist[from + 1])
           /\ DrawsAt(hist[from + 2], P3)) =>
             ~HasLine(hist[from + 2].cv_calls, <<100, 100>>, <<160, 100>>)

(***************************************************************************)
(* C6.  With the board visible, a frame that shows a hand and whose draw   *)
(* signal is false or whose canvas point is out of bounds leaves prev_pos  *)
(* none; the frames draw at P1, such a frame, draw at P3 apply exactly one *)
(* stroke operation on the third frame, a line from P3 to P3.              *)
(***************************************************************************)
C6_InterruptResets ==
    /\ (/\ hist # << >>
        /\ HasHand(Last)
        /\ Last.board_shown
        /\ (~Last.will_draw \/ ~InCanvas(Local(Last)))) =>
          app.prev_pos = None
    /\ \A from \in 1..(Len(hist) - 2) :
          (/\ DrawsAt(hist[from], P1)
           /\ HasHand(hist[from + 1])
           /\ hist[from + 1].board_shown
           /\ \/ ~hist[from + 1].will_draw
              \/ ~InCanvas(Local(hist[from + 1]))
           /\ DrawsAt(hist[from + 2], P3)) =>
             /\ hist[from + 2].prev_pos_before = None
             /\ hist[from + 2].cv_calls =
                   <<[fn |-> "line", pt1 |-> <<160, 100>>,
                      pt2 |-> <<160, 100>>, color |-> app.current_color,
                      thickness |-> app.brush_size]>>

\* drawn at P1, then at the pixel right of the canvas, then at P3, where a
\* line from P3 to P3 was drawn
C6_Witness ==
    /\ Len(hist) = DrawHist
    /\ DrawsAt(hist[Len(hist) - 2], P1)
    /\ hist[Len(hist) - 2].cv_calls # << >>
    /\ DrawsAt(hist[Len(hist) - 1], OffCanvas)
    /\ DrawsAt(Last, P3)
    /\ HasLine(Last.cv_calls, <<160, 100>>, <<160, 100>>)

(***************************************************************************)
(* The painting specification: pen and eraser at the corners of the canvas *)
(* and at the pixels just off its four edges.                              *)
(***************************************************************************)
PaintHist == 1

\* frame pixels of the canvas corners (0, 0) and (504, 378), of the points
\* (-1, 0), (0, -1), (505, 378) and (504, 379) off the canvas, and of the
\* eraser toggle
TopLeft == <<32, 96>>
BottomRight == <<536, 474>>
OffLeft == <<31, 96>>
OffTop == <<32, 95>>
OffRight == <<537, 474>>
OffBottom == <<536, 475>>
AtEraser == <<416, 48>>

PaintHands ==
    {<< >>, <<Armed(AtBoard)>>}
        \cup {<<Released(at)>> :
                at \in {AtBoard, AtEraser, P1, TopLeft, BottomRight, OffLeft,
                        OffTop, OffRight, OffBottom}}

NextPaint == \E ds \in PaintHands : ProcessFrame(ds, NoKey, PaintHist)

SpecPaint == Init /\ [][NextPaint]_vars

\* the current point of a stroke operation
CurrentPoint(call) == IF call.fn = "circle" THEN call.center ELSE call.pt2

(***************************************************************************)
(* C7.  Every stroke operation of a frame, pen line or eraser circle, is   *)
(* applied at the frame's fingertip minus the canvas origin, and that      *)
(* point lies in [0, canvasWidth) x [0, canvasHeight); prev_pos is none or *)
(* a point within those bounds.                                            *)
(***************************************************************************)
C7_StrokesInBounds ==
    /\ hist # << >> =>
          \A k \in 1..Len(Last.cv_calls) :
             /\ Last.index_pos # None
             /\ CurrentPoint(Last.cv_calls[k]) = Local(Last)
             /\ InCanvas(CurrentPoint(Last.cv_calls[k]))
             /\ Last.cv_calls[k].fn = "line" =>
                   InCanvas(Last.cv_calls[k].pt1)
    /\ app.prev_pos # None => InCanvas(app.prev_pos)

\* the eraser was applied at the last pixel of the canvas
C7_Witness ==
    /\ hist # << >>
    /\ HasHand(Last)
    /\ Last.hands[1].at = BottomRight
    /\ Len(Last.cv_calls) = 1
    /\ Last.cv_calls[1].fn = "circle"
    /\ Last.cv_calls[1].center = <<504, 378>>
    /\ app.prev_pos = <<504, 378>>

(***************************************************************************)
(* The menu specification: handle_interaction called on its own, with a    *)
(* position or with none, clicking or not.  The positions are, for every   *)
(* button, its center, the points r - 1 and r right of the center and a    *)
(* point at distance exactly r off the axes; two points that lie inside    *)
(* two buttons; and a point inside no button.                              *)
(***************************************************************************)
\* an offset (dx, dy) with dx^2 + dy^2 = r^2 for the two radii of the menu
OnCircle(r) == IF r = BUTTON_RADIUS THEN <<15, 20>> ELSE <<18, 24>>

ButtonPoints(button) ==
    LET cx == button.center_x
        cy == button.center_y
        r == button.radius
    IN  {<<cx, cy>>, <<cx + r - 1, cy>>, <<cx + r, cy>>,
         <<cx + OnCircle(r)[1], cy + OnCircle(r)[2]>>}

MenuPoints ==
    LET registry == get_all_buttons(setup_menu)
    IN  UNION {ButtonPoints(registry[i]) : i \in 1..Len(registry)}
            \cup {<<50, 48>>, <<90, 48>>, Away}

\* one call menu.handle_interaction(finger_pos, is_clicking)
HandleInteraction(finger_pos, is_clicking) ==
    /\ pc = "loop"
    /\ \E r \in {handle_interaction(app.menu, finger_pos, is_clicking)} :
          /\ app' = [app EXCEPT !.menu = r.menu]
          /\ hist' = <<[finger_pos |-> finger_pos,
                        is_clicking |-> is_clicking,
                        ret |-> r.ret, tested |-> r.tested]>>
    /\ UNCHANGED pc

NextMenu ==
    \E finger_pos \in MenuPoints \cup {None}, is_clicking \in BOOLEAN :
        HandleInteraction(finger_pos, is_clicking)

SpecMenu == Init /\ [][NextMenu]_vars

\* the registry order the claim states
ClaimedOrder ==
    <<app.menu.clear_button>> \o app.menu.color_buttons
        \o app.menu.pen_size_buttons
        \o <<app.menu.board_toggle, app.menu.pen_toggle,
             app.menu.color_toggle, app.menu.eraser_toggle>>

\* the point p lies strictly inside the circle of button
Inside(button, p) ==
    Sq(p[1] - button.center_x) + Sq(p[2] - button.center_y)
        < Sq(button.radius)

\* the positions in ClaimedOrder of the buttons that contain p
Hits(p) == {i \in 1..Len(ClaimedOrder) : Inside(ClaimedOrder[i], p)}

Min(S) == CHOOSE i \in S : \A j \in S : i <= j

(***************************************************************************)
(* C8.  A call of handle_interaction with a position runs the hit tests in *)
(* the order clear, color buttons, pen-size buttons, board toggle,         *)
(* pen-size toggle, color toggle, eraser toggle and stops at the first     *)
(* button that contains the position; that button is the hover target and, *)
(* when clicking, the button returned.  If no button contains the          *)
(* position, every button was tested, the hover target is none and none is *)
(* returned.                                                               *)
(***************************************************************************)
C8_FirstHitWins ==
    (hist # << >> /\ Last.finger_pos # None) =>
       LET tested == Last.tested
           hits == Hits(Last.finger_pos)
       IN  /\ Len(tested) <= Len(ClaimedOrder)
           /\ \A k \in 1..Len(tested) : tested[k].button = ClaimedOrder[k]
           /\ IF hits = {}
              THEN /\ Len(tested) = Len(ClaimedOrder)
                   /\ app.menu.current_hover = None
                   /\ Last.ret = None
              ELSE /\ Len(tested) = Min(hits)
                   /\ app.menu.current_hover = ClaimedOrder[Min(hits)]
                   /\ Last.ret = IF Last.is_clicking
                                 THEN ClaimedOrder[Min(hits)]
                                 ELSE None

\* a click at a point inside a color button and inside the board toggle
\* returned the color button
C8_Witness ==
    /\ hist # << >>
    /\ Last.finger_pos # None
    /\ Last.is_clicking
    /\ Cardinality(Hits(Last.finger_pos)) = 2
    /\ Inside(app.menu.board_toggle, Last.finger_pos)
    /\ Last.ret # None
    /\ Contains(app.menu.color_buttons, Last.ret)

(***************************************************************************)
(* C10.  A call of handle_interaction that is not clicking returns none    *)
(* and changes nothing but the hover target; a call without a position     *)
(* returns none, leaves the hover target none and changes nothing else.    *)
(***************************************************************************)
C10_HoverOnly ==
    [][ LET call == hist'[Len(hist')]
        IN  /\ ~call.is_clicking =>
                  /\ call.ret = None
                  /\ app' = [app EXCEPT !.menu.current_hover =
                                           app'.menu.current_hover]
            /\ call.finger_pos = None =>
                  /\ call.ret = None
                  /\ app' = [app EXCEPT !.menu.current_hover = None] ]_vars

\* hovering over a color button without clicking left the message of an
\* earlier click in place
C10_Witness ==
    /\ hist # << >>
    /\ ~Last.is_clicking
    /\ Last.finger_pos # None
    /\ app.menu.current_hover # None
    /\ Contains(app.menu.color_buttons, app.menu.current_hover)
    /\ app.menu.last_message = <<"Eraser Selected">>

(***************************************************************************)
(* The hit-test specification: is_over applied to buttons of both radii    *)
(* and to points at and next to the boundary of the button.                *)
(***************************************************************************)
HitHist == 2

HitButtons ==
    {setup_menu.clear_button, setup_menu.color_buttons[1],
     setup_menu.color_buttons[MAX_COLORS], setup_menu.pen_size_buttons[1]}

\* where the point lies relative to the center of a button of radius r
HitOffsets(r) ==
    {<<0, 0>>, <<r - 1, 0>>, <<r, 0>>, <<-r, 0>>, <<0, r>>, <<0, 1 - r>>,
     OnCircle(r), <<r + 1, 0>>}

\* one call button.is_over(x, y)
IsOver(button, x, y) ==
    /\ pc = "loop"
    /\ hist' = LastN(Append(hist, [button |-> button, x |-> x, y |-> y,
                                   over |-> is_over(button, x, y)]),
                     HitHist)
    /\ UNCHANGED <<app, pc>>

NextHit ==
    \E button \in HitButtons :
        \E d \in HitOffsets(button.radius) :
            IsOver(button, button.center_x + d[1], button.center_y + d[2])

SpecHit == Init /\ [][NextHit]_vars

\* the squared distance of the point of call c from the center of its button
Dist2(c) == Sq(c.x - c.button.center_x) + Sq(c.y - c.button.center_y)

(***************************************************************************)
(* C9.  is_over(x, y) is true iff (x - cx)^2 + (y - cy)^2 < r^2: a point   *)
(* at distance exactly r from the center is outside, a point at distance   *)
(* r - 1 is inside.                                                        *)
(***************************************************************************)
C9_StrictHitTest ==
    \A k \in 1..Len(hist) :
        /\ hist[k].over = (Dist2(hist[k]) < Sq(hist[k].button.radius))
        /\ Dist2(hist[k]) = Sq(hist[k].button.radius) => ~hist[k].over
        /\ Dist2(hist[k]) = Sq(hist[k].button.radius - 1) => hist[k].over

\* a point at distance r off the axes was reported outside a button and a
\* point at distance r - 1 inside the same button
C9_Witness ==
    /\ Len(hist) = 2
    /\ hist[1].button = hist[2].button
    /\ hist[1].x # hist[1].button.center_x
    /\ hist[1].y # hist[1].button.center_y
    /\ Dist2(hist[1]) = Sq(hist[1].button.radius)
    /\ ~hist[1].over
    /\ Dist2(hist[2]) = Sq(hist[2].button.radius - 1)
    /\ hist[2].over

(***************************************************************************)
(* The tool specification: the click gesture on the clear button, a color  *)
(* button, a pen-size button and the four toggles, and the release pose at *)
(* a point of the canvas, and frames without a hand.                       *)
(***************************************************************************)
ToolHist == 1

\* frame pixels of the centers of the clear button, the color toggle, the
\* pen-size toggle, the second color button and the fourth pen-size button
AtClear == <<496, 48>>
AtColors == <<336, 48>>
AtPenSize == <<576, 48>>
AtGreen == <<186, 48>>
AtSize20 == <<576, 338>>

ToolHands ==
    {<< >>, <<Armed(Away)>>}
        \cup {<<Released(at)>> :
                at \in {AtBoard, AtEraser, AtClear, AtColors, AtPenSize,
                        AtGreen, AtSize20, P1}}

NextTool == \E ds \in ToolHands : ProcessFrame(ds, NoKey, ToolHist)

SpecTool == Init /\ [][NextTool]_vars

\* the frame of the step just taken, and the button it activated
Now == hist'[Len(hist')]

Activated(button) == Now.clicked # None /\ Now.clicked = button

\* the tool state, the UI flags and the canvas of the application a
ToolState(a) ==
    [current_color |-> a.current_color, brush_size |-> a.brush_size,
     current_tool |-> a.current_tool, show_canvas |-> a.show_canvas,
     is_drawing_mode |-> a.tracker.is_drawing_mode,
     show_colors |-> a.show_colors, show_brush_sizes |-> a.show_brush_sizes,
     is_eraser |-> a.is_eraser, canvas |-> a.canvas]

\* every pixel of canvas is the background fill
Blank(canvas) == \A p \in DOMAIN canvas : canvas[p] = WHITE

(***************************************************************************)
(* C11.  A frame that activates a color button leaves the active color     *)
(* that button's color and the eraser flag false, whatever the flag was,   *)
(* and leaves brush size, visibility flags and canvas as they were.        *)
(***************************************************************************)
C11_ColorSelect ==
    [][ \A i \in 1..Len(app.menu.color_buttons) :
           Activated(app.menu.color_buttons[i]) =>
              ToolState(app') =
                 [ToolState(app) EXCEPT
                     !.current_color = app.menu.color_buttons[i].color,
                     !.is_eraser = FALSE] ]_vars

\* the green button was activated while a stroke was on the canvas; green is
\* the active color and the eraser is off
C11_Witness ==
    /\ hist # << >>
    /\ HasHand(Last)
    /\ Last.hands[1].at = AtGreen
    /\ Last.clicked = app.menu.color_buttons[2]
    /\ app.current_color = GREEN
    /\ ~app.is_eraser
    /\ app.show_colors
    /\ ~Blank(app.canvas)

(***************************************************************************)
(* C12.  A frame that activates the board toggle, the color toggle, the    *)
(* pen-size toggle or the eraser toggle flips that flag and nothing else;  *)
(* one that activates a pen-size button sets the brush size to the         *)
(* button's value and nothing else; one that activates the clear button    *)
(* refills the canvas and nothing else.                                    *)
(***************************************************************************)
C12_OwnRoleOnly ==
    [][ /\ Activated(app.menu.board_toggle) =>
              ToolState(app') =
                 [ToolState(app) EXCEPT
                     !.show_canvas = ~app.show_canvas,
                     !.is_drawing_mode = ~app.tracker.is_drawing_mode]
        /\ Activated(app.menu.color_toggle) =>
              ToolState(app') =
                 [ToolState(app) EXCEPT !.show_colors = ~app.show_colors]
        /\ Activated(app.menu.pen_toggle) =>
              ToolState(app') =
                 [ToolState(app) EXCEPT
                     !.show_brush_sizes = ~app.show_brush_sizes]
        /\ Activated(app.menu.eraser_toggle) =>
              ToolState(app') =
                 [ToolState(app) EXCEPT !.is_eraser = ~app.is_eraser]
        /\ \A i \in 1..Len(app.menu.pen_size_buttons) :
              Activated(app.menu.pen_size_buttons[i]) =>
                 ToolState(app') =
                    [ToolState(app) EXCEPT
                        !.brush_size = PEN_SIZE_MIN + (i - 1) * PEN_SIZE_STEP]
        /\ Activated(app.menu.clear_button) =>
              ToolState(app') =
                 [ToolState(app) EXCEPT
                     !.canvas = [p \in DOMAIN app.canvas |-> WHITE]] ]_vars

\* the color toggle was activated with the size panel open, the eraser on,
\* the brush at 20 and a stroke on the canvas, all of which are still so
C12_Witness ==
    /\ hist # << >>
    /\ Last.clicked = app.menu.color_toggle
    /\ app.show_colors
    /\ app.show_brush_sizes
    /\ app.is_eraser
    /\ app.show_canvas
    /\ app.brush_size = 20
    /\ ~Blank(app.canvas)

(***************************************************************************)
(* C13.  After a frame that activates the clear button every canvas pixel  *)
(* is the background fill, whatever was on the canvas, and clearing the    *)
(* cleared canvas once more leaves the same canvas.                        *)
(***************************************************************************)
C13_ClearFills ==
    [][ Activated(app.menu.clear_button) =>
           /\ Blank(app'.canvas)
           /\ clear_canvas(app', app'.menu.clear_button).canvas = app'.canvas
      ]_vars

\* the clear button was activated on a canvas with a stroke
C13_Witness ==
    /\ hist # << >>
    /\ Last.clicked = app.menu.clear_button
    /\ ~Blank(Last.canvas_before)
    /\ Blank(app.canvas)

(***************************************************************************)
(* C14.  A frame changes the canvas only if it applies a stroke operation  *)
(* or activates the clear button: frames that composite the canvas onto    *)
(* the picture, that hide or show the board, that hover, and frames        *)
(* without a hand leave every pixel as it was.                             *)
(***************************************************************************)
C14_CanvasPersists ==
    [][ app'.canvas # app.canvas =>
           \/ Now.cv_calls # << >>
           \/ Activated(app.menu.clear_button) ]_vars

\* a frame without a hand was composited and displayed with the board
\* visible and left the stroke on the canvas
C14_Witness ==
    /\ hist # << >>
    /\ ~HasHand(Last)
    /\ Last.board_shown
    /\ Contains(Last.steps, "blend_canvas_onto_frame")
    /\ ~Blank(app.canvas)
    /\ app.canvas = Last.canvas_before

(***************************************************************************)
(* modules/camera.py: Camera.  cap is None or [opened |-> whether the      *)
(* device could be opened]; a read of the device is [ret |-> whether a     *)
(* picture was delivered, hands |-> the hands the picture shows]; a frame  *)
(* is [hands |-> ...].  A method that can raise returns the error in the   *)
(* field raised, as <<name>>, and None there if it returned normally.      *)
(***************************************************************************)
Camera ==
    [cap |-> None, latest_frame |-> None, is_running |-> FALSE,
     capture_thread |-> FALSE, frame_lock |-> << >>]

\* the array cap.read() returns: a buffer of its own holding the picture,
\* which shows the hands
ndarray(hands) == [hands |-> hands, buffer |-> <<"cap.read">>]

\* ndarray.copy(), mutated: the array itself is handed over
copy_alias(frame) == frame

\* ndarray.copy(): the same picture in a new buffer
copy(frame) == [frame EXCEPT !.buffer = <<"copy">>]

\* `with self.frame_lock:` entered by thread; frame_lock is << >> while the
\* lock is free
lock_acquire(camera, thread) == [camera EXCEPT !.frame_lock = <<thread>>]

\* `with self.frame_lock:` left
lock_release(camera) == [camera EXCEPT !.frame_lock = << >>]

\* capture_single_frame, line 61, negated
can_capture(camera) == ~(camera.cap = None \/ ~camera.cap.opened)

\* capture_single_frame, line 69
store_frame(camera, frame) == [camera EXCEPT !.latest_frame = frame]

\* Camera.open: cv2.VideoCapture yields a device that is open or not
open(camera, device_opens) ==
    LET opened == [camera EXCEPT !.cap = [opened |-> device_opens]]
    IN  IF ~device_opens
        THEN [camera |-> opened, raised |-> <<"RuntimeError">>]
        ELSE [camera |-> opened, raised |-> None]

\* Camera.capture_single_frame: one pass of the loop of update_frame
capture_single_frame(camera, read) ==
    IF ~can_capture(camera) THEN camera
    ELSE IF ~read.ret THEN camera
    ELSE store_frame(camera, ndarray(read.hands))

\* Camera.start
start(camera, device_opens) ==
    LET opened == open(camera, device_opens)
    IN  IF opened.raised # None THEN opened
        ELSE [camera |-> [opened.camera EXCEPT !.is_running = TRUE,
                                               !.capture_thread = TRUE],
              raised |-> None]

\* Camera.get_latest_frame
get_latest_frame(camera) ==
    IF camera.latest_frame = None
    THEN [frame |-> None, raised |-> <<"RuntimeError">>]
    ELSE [frame |-> copy(camera.latest_frame), raised |-> None]

\* Camera.get_immediate_frame
get_immediate_frame(camera, read) ==
    IF camera.cap = None \/ ~camera.cap.opened
    THEN [frame |-> None, raised |-> <<"RuntimeError">>]
    ELSE IF ~read.ret
    THEN [frame |-> None, raised |-> <<"RuntimeError">>]
    ELSE [frame |-> ndarray(read.hands), raised |-> None]

\* Camera.get_frame
get_frame(camera, read) ==
    IF camera.is_running THEN get_latest_frame(camera)
    ELSE get_immediate_frame(camera, read)

\* Camera.release
release(camera) ==
    IF camera.cap = None THEN camera ELSE [camera EXCEPT !.cap = None]

\* Thread.join, mutated: it returns although the thread is still running
joined_at_once(thread_pc) == TRUE

\* Thread.join returns once the thread, which is at thread_pc, has ended
joined(thread_pc) == thread_pc \in {"done", "crashed"}

\* Camera.stop, mutated: the device is not released
stop_no_release(camera) ==
    IF ~camera.is_running THEN camera
    ELSE [camera EXCEPT !.is_running = FALSE, !.capture_thread = FALSE]

\* Camera.stop
stop(camera) ==
    IF ~camera.is_running THEN camera
    ELSE release([camera EXCEPT !.is_running = FALSE,
                                !.capture_thread = FALSE])

(***************************************************************************)
(* main.py: the session, from the constructor to the end of run().         *)
(***************************************************************************)
\* VirtualCanvas.__init__
VirtualCanvas_init ==
    [camera |-> Camera,
     tracker |-> HandTracker,
     menu |-> None,
     canvas |-> None,
     canvas_size |-> None,
     canvas_origin |-> None,
     current_color |-> COLORS[1],
     brush_size |-> DEFAULT_BRUSH_SIZE,
     current_tool |-> "",
     is_drawing |-> FALSE,
     prev_pos |-> None,
     show_canvas |-> FALSE,
     show_colors |-> FALSE,
     show_brush_sizes |-> FALSE,
     is_eraser |-> FALSE,
     trace |-> NoTrace]

\* VirtualCanvas.setup_canvas
setup_canvas(self) ==
    [self EXCEPT
        !.canvas_size = <<Scaled(DEFAULT_HEIGHT, CANVAS_SIZE_MULTIPLIER),
                          Scaled(DEFAULT_WIDTH, CANVAS_SIZE_MULTIPLIER)>>,
        !.canvas_origin = <<Scaled(DEFAULT_HEIGHT, CANVAS_OFFSET_Y),
                            Scaled(DEFAULT_WIDTH, CANVAS_OFFSET_X)>>,
        !.canvas = [p \in Pixels |-> WHITE]]

\* VirtualCanvas.wait_for_camera: get_immediate_frame returns a frame or
\* raises, it never returns None, so the waiting loop is not entered and the
\* method makes two reads, first and second; the error it ends with, or None
wait_for_camera(self, first, second) ==
    IF get_immediate_frame(self.camera, first).raised # None
    THEN get_immediate_frame(self.camera, first).raised
    ELSE get_immediate_frame(self.camera, second).raised

\* VirtualCanvas.initialize: the error of camera.start() is not caught, the
\* error of wait_for_camera is caught and ends the method
initialize(self, device_opens, first, second) ==
    LET started == start(self.camera, device_opens)
        waiting == [self EXCEPT !.camera = started.camera]
    IN  IF started.raised # None
        THEN [self |-> waiting, raised |-> started.raised]
        ELSE IF wait_for_camera(waiting, first, second) # None
        THEN [self |-> waiting, raised |-> None]
        ELSE [self |-> setup_canvas([waiting EXCEPT !.menu = setup_menu]),
              raised |-> None]

\* VirtualCanvas.process_frame after its first line, got being what
\* camera.get_frame() returned or raised; that error is not caught; in a
\* session without a menu the call self.menu.handle_interaction raises
\* AttributeError for a frame with a fingertip, before detect_click is
\* evaluated
process_frame_with(self, got, key) ==
    LET tracked == [Called(self, "tracker.process_frame") EXCEPT
                       !.tracker = HandTracker_process_frame(
                                       self.tracker,
                                       Detection(got.frame.hands))]
        info == get_finger_info(tracked)
    IN  IF got.raised # None
        THEN [self |-> self, ret |-> FALSE, index_pos |-> None,
              will_draw |-> FALSE, raised |-> got.raised, frame |-> None]
        ELSE IF self.menu = None /\ info.index_pos # None
        THEN [self |-> Called(tracked, "handle_ui_interaction"),
              ret |-> FALSE, index_pos |-> info.index_pos,
              will_draw |-> info.will_draw, raised |-> <<"AttributeError">>,
              frame |-> got.frame]
        ELSE [raised |-> None, frame |-> got.frame]
                 @@ process_frame(self, Detection(got.frame.hands), key)

\* VirtualCanvas.process_frame from its first line
process_frame_of_camera(self, key) ==
    process_frame_with(
        self, get_frame(self.camera, [ret |-> FALSE, hands |-> << >>]), key)

(***************************************************************************)
(* The session specification: run() from its first line.  pc is "run"      *)
(* before initialize(), "loop" while the frame loop runs, "exiting" when   *)
(* process_frame has returned False, "stopped" after camera.stop() and     *)
(* "raised" when an error has left run().  The capture thread stores what  *)
(* the device delivers while the camera is running.                        *)
(***************************************************************************)
RunHist == 2

RunHands == {<< >>, <<Armed(AtBoard)>>, <<Released(AtBoard)>>, <<Released(P1)>>}

Reads == [ret : BOOLEAN, hands : {<< >>}]

InitRun ==
    /\ app = VirtualCanvas_init
    /\ hist = << >>
    /\ pc = "run"

\* self.initialize() in run()
Initialize(device_opens, first, second) ==
    /\ pc = "run"
    /\ \E r \in {initialize(app, device_opens, first, second)} :
          /\ app' = r.self
          /\ pc' = IF r.raised # None THEN "raised" ELSE "loop"
          /\ hist' = LastN(Append(hist, [call |-> "initialize",
                                         raised |-> r.raised]), RunHist)

\* one pass of Camera.update_frame in the capture thread
UpdateFrame(read) ==
    /\ pc = "loop"
    /\ app.camera.is_running
    /\ app' = [app EXCEPT !.camera = capture_single_frame(app.camera, read)]
    /\ UNCHANGED <<hist, pc>>

\* one evaluation of self.process_frame() in the loop of run()
Tick(key) ==
    /\ pc = "loop"
    /\ \E r \in {process_frame_of_camera(app, key)} :
          /\ app' = [r.self EXCEPT !.trace = NoTrace]
          /\ pc' = IF r.raised # None THEN "raised"
                   ELSE IF r.ret THEN "loop" ELSE "exiting"
          /\ hist' = LastN(
                Append(hist,
                       [call |-> "process_frame", raised |-> r.raised,
                        frame |-> r.frame, key |-> key,
                        hands |-> IF r.frame = None THEN << >>
                                  ELSE r.frame.hands,
                        will_draw |-> r.will_draw,
                        click |-> r.self.trace.click,
                        cv_calls |-> r.self.trace.cv_calls,
                        steps |-> r.self.trace.steps]),
                RunHist)

\* self.camera.stop() after the loop of run()
Stop ==
    /\ pc = "exiting"
    /\ app' = [app EXCEPT !.camera = stop(app.camera)]
    /\ pc' = "stopped"
    /\ hist' = LastN(Append(hist, [call |-> "camera.stop", raised |-> None]),
                     RunHist)

NextRun ==
    \/ \E device_opens \in BOOLEAN, first \in Reads, second \in Reads :
          Initialize(device_opens, first, second)
    \/ \E ret \in BOOLEAN, hands \in RunHands :
          UpdateFrame([ret |-> ret, hands |-> hands])
    \/ \E key \in {NoKey, ESC_KEY} : Tick(key)
    \/ Stop

SpecRun == InitRun /\ [][NextRun]_vars

\* run() goes on after the loop: camera.stop() is reached
SpecRunFair == SpecRun /\ WF_vars(Stop)

\* the last event of the session is a call of process_frame
Ticked == hist # << >> /\ Last.call = "process_frame"

(***************************************************************************)
(* C15.  A call of process_frame for which the camera has no frame leaves  *)
(* the loop running, without an error, a stroke or a click; a call whose   *)
(* frame shows no hand makes no stroke and no click and leaves the loop    *)
(* running unless the termination key was read.                            *)
(***************************************************************************)
C15_MissingFrameSkipped ==
    /\ (Ticked /\ Last.frame = None) =>
          /\ Last.raised = None
          /\ pc = "loop"
          /\ Last.cv_calls = << >>
          /\ ~Last.click
    /\ (Ticked /\ Last.frame # None /\ ~HasHand(Last)) =>
          /\ Last.raised = None
          /\ Last.cv_calls = << >>
          /\ ~Last.click
          /\ Last.key # ESC_KEY => pc = "loop"

(***************************************************************************)
(* C16.  In a session whose initialize() failed, because the camera could  *)
(* not be opened or because it delivered no frame at startup, process_frame*)
(* is never called.                                                        *)
(***************************************************************************)
C16_NoLoopAfterFailedInit ==
    (pc # "run" /\ app.menu = None) =>
       \A k \in 1..Len(hist) : hist[k].call # "process_frame"

\* the half of C16 about a camera that cannot be opened: the loop is not
\* entered
C16_NoLoopWithoutDevice ==
    (app.camera.cap # None /\ ~app.camera.cap.opened) =>
       /\ pc = "raised"
       /\ \A k \in 1..Len(hist) : hist[k].call # "process_frame"

\* the calls a fully processed frame makes at least, in this order
FullyProcessed(steps) ==
    /\ Len(steps) >= 3
    /\ steps[1] = "tracker.process_frame"
    /\ Contains(steps, "handle_ui_interaction")
    /\ steps[Len(steps)] = "cv.imshow"
    /\ Contains(steps, "blend_canvas_onto_frame") = app.show_canvas

(***************************************************************************)
(* C17.  The loop is left for camera.stop() only by a call of              *)
(* process_frame that read the termination key, and that call processed    *)
(* its frame to the end (tracker, menu, blend if the board is visible,     *)
(* display); a call that read the key is followed by no further call of    *)
(* process_frame; camera.stop() follows, after which the capture thread is *)
(* not running and the device is released.                                 *)
(***************************************************************************)
C17_EscEndsSession ==
    /\ [](pc = "exiting" =>
             /\ Ticked
             /\ Last.key = ESC_KEY
             /\ Last.raised = None
             /\ FullyProcessed(Last.steps))
    /\ []((Ticked /\ Last.key = ESC_KEY /\ Last.raised = None) =>
             pc = "exiting")
    /\ [](pc = "stopped" =>
             /\ Len(hist) = RunHist
             /\ Last.call = "camera.stop"
             /\ hist[Len(hist) - 1].call = "process_frame"
             /\ hist[Len(hist) - 1].key = ESC_KEY
             /\ ~app.camera.is_running
             /\ ~app.camera.capture_thread
             /\ app.camera.cap = None)
    /\ (pc = "exiting" ~> pc = "stopped")

\* the termination key was read on a frame that drew a stroke, and the
\* camera has been stopped and released
C17_Witness ==
    /\ pc = "stopped"
    /\ Len(hist) = RunHist
    /\ hist[1].call = "process_frame"
    /\ hist[1].key = ESC_KEY
    /\ hist[1].cv_calls # << >>
    /\ app.camera.cap = None
    /\ ~Blank(app.canvas)

(***************************************************************************)
(* The two-run specification: two sessions side by side, both after a      *)
(* successful initialize().  On every frame both are shown the same first  *)
(* hand; the second session is shown further hands as well.                *)
(***************************************************************************)
FirstHands ==
    {Armed(AtBoard), Released(AtBoard), Released(AtEraser), Released(P1),
     Released(P3)}

FurtherHands ==
    {<< >>, <<Armed(P3)>>, <<Released(P1)>>, <<Released(AtEraser)>>,
     <<Released(AtBoard), Armed(AtBoard)>>}

InitTwin ==
    /\ app = <<VirtualCanvas, VirtualCanvas>>
    /\ hist = << >>
    /\ pc = "loop"

\* what a run lets be observed of one frame
Observed(r) ==
    [index_pos |-> r.index_pos, will_draw |-> r.will_draw,
     click |-> r.self.trace.click, clicked |-> r.self.trace.clicked,
     cv_calls |-> r.self.trace.cv_calls]

\* one frame in both sessions: ds are the hands of the first session, more
\* the further hands of the second
TwinFrame(ds, more) ==
    /\ pc = "loop"
    /\ \E r1 \in {process_frame(app[1], Detection(ds), NoKey)} :
         \E r2 \in {process_frame(app[2], Detection(ds \o more), NoKey)} :
            /\ app' = <<[r1.self EXCEPT !.trace = NoTrace],
                        [r2.self EXCEPT !.trace = NoTrace]>>
            /\ hist' = <<[hands |-> ds, more |-> more,
                          runs |-> <<Observed(r1), Observed(r2)>>]>>
    /\ UNCHANGED pc

NextTwin ==
    \/ TwinFrame(<< >>, << >>)
    \/ \E first \in FirstHands, more \in FurtherHands :
          TwinFrame(<<first>>, more)

SpecTwin == InitTwin /\ [][NextTwin]_vars

(***************************************************************************)
(* C18.  Two runs whose frames agree on the first detected hand and differ *)
(* only in further hands have, after every frame, the same fingertip       *)
(* position, draw signal, click result, activated button and stroke        *)
(* operations, and the same tool state, UI flags, canvas, stroke pointer,  *)
(* menu and click-detection state.                                         *)
(***************************************************************************)
C18_FirstHandOnly ==
    /\ hist # << >> => Last.runs[1] = Last.runs[2]
    /\ ToolState(app[1]) = ToolState(app[2])
    /\ app[1].prev_pos = app[2].prev_pos
    /\ app[1].menu = app[2].menu
    /\ app[1].tracker.prev_index_up = app[2].tracker.prev_index_up
    /\ app[1].tracker.prev_middle_up = app[2].tracker.prev_middle_up
    /\ app[1].tracker.is_clicked_prev = app[2].tracker.is_clicked_prev

\* the first hand drew at P1 with the eraser on while a second hand in the
\* second run held the armed pose elsewhere on the canvas
C18_Witness ==
    /\ hist # << >>
    /\ Last.hands = <<Released(P1)>>
    /\ Last.more = <<Armed(P3)>>
    /\ Last.runs[2].cv_calls # << >>
    /\ Last.runs[2].cv_calls[1].fn = "circle"
    /\ Last.runs[2].index_pos = P1
    /\ app[2].is_eraser

(***************************************************************************)
(* The raised-finger specification: is_finger_raised applied to the index  *)
(* and the middle finger of a hand whose four joints have every            *)
(* combination of the heights 0..MaxY.                                     *)
(***************************************************************************)
MaxY == 3

\* the hand whose joints of the finger joints have the heights y, and whose
\* other landmarks are at height 0
HandOfHeights(joints, y) ==
    [landmark |->
        [i \in 0..20 |->
            [x |-> 0,
             y |-> IF \E key \in DOMAIN joints : joints[key] = i
                   THEN y[CHOOSE key \in DOMAIN joints : joints[key] = i]
                   ELSE 0]]]

\* one call self.is_finger_raised(hand_landmark, joints)
IsFingerRaised(finger_name, y) ==
    /\ pc = "loop"
    /\ hist' = <<[finger_name |-> finger_name, y |-> y,
                  raised |-> is_finger_raised(
                                HandOfHeights(FINGER_LANDMARKS[finger_name],
                                              y),
                                FINGER_LANDMARKS[finger_name])]>>
    /\ UNCHANGED <<app, pc>>

NextRaised ==
    \E finger_name \in DOMAIN FINGER_LANDMARKS :
        \E y \in [{"TIP", "DIP", "PIP", "MCP"} -> 0..MaxY] :
            IsFingerRaised(finger_name, y)

SpecRaised == Init /\ [][NextRaised]_vars

(***************************************************************************)
(* C19.  is_finger_raised is true iff tip < distal < proximal < metacarpal *)
(* in y, strictly: it is false whenever two neighbouring joints are level  *)
(* or in reversed order.                                                   *)
(***************************************************************************)
C19_StrictlyRising ==
    hist # << >> =>
       LET y == Last.y
       IN  /\ Last.raised = (y["TIP"] < y["DIP"] /\ y["DIP"] < y["PIP"]
                                /\ y["PIP"] < y["MCP"])
           /\ (y["TIP"] >= y["DIP"] \/ y["DIP"] >= y["PIP"]
                  \/ y["PIP"] >= y["MCP"]) => ~Last.raised

\* a finger with strictly rising joints was found raised, which needs all
\* four heights
C19_Witness ==
    /\ hist # << >>
    /\ Last.raised
    /\ Last.y["TIP"] = 0
    /\ Last.y["MCP"] = MaxY
    /\ Last.finger_name = MIDDLE_FINGER_KEY

\* a finger whose tip and distal joint are level, the other joints rising,
\* was found not raised
C19_TieNotRaised ==
    /\ hist # << >>
    /\ ~Last.raised
    /\ Last.y["TIP"] = Last.y["DIP"]
    /\ Last.y["DIP"] < Last.y["PIP"]
    /\ Last.y["PIP"] < Last.y["MCP"]

(***************************************************************************)
(* C20.  In every frame process_frame runs the tracker first, then the     *)
(* menu dispatch (handle_ui_interaction), then the canvas draw             *)
(* (handle_drawing): the menu dispatch of a frame is never called after    *)
(* the frame's canvas draw.                                                *)
(***************************************************************************)
C20_DispatchBeforeDraw ==
    hist # << >> =>
       /\ Last.steps[1] = "tracker.process_frame"
       /\ \A i, j \in 1..Len(Last.steps) :
             (/\ Last.steps[i] = "handle_ui_interaction"
              /\ Last.steps[j] = "handle_drawing") => i < j

\* with the buttons and the canvas where setup_menu and setup_canvas put
\* them, a frame that activates a button applies no stroke operation
C20_NoStrokeOnClickFrame ==
    (hist # << >> /\ Last.clicked # None) => Last.cv_calls = << >>

(***************************************************************************)
(* C21.  A frame applies a stroke operation only if the board was visible  *)
(* when the frame began, the frame's draw signal is true and the frame has *)
(* a fingertip, which then shows the release pose; a frame with the board  *)
(* hidden, a false draw signal or no fingertip applies none, and changes   *)
(* the canvas only by clearing it.                                         *)
(***************************************************************************)
C21_StrokeOnlyWhenEnabled ==
    hist # << >> =>
       /\ Last.cv_calls # << >> =>
             /\ Last.board_shown
             /\ Last.will_draw
             /\ Last.index_pos # None
             /\ IsReleased(Last)
       /\ (~Last.board_shown \/ ~Last.will_draw \/ Last.index_pos = None) =>
             /\ Last.cv_calls = << >>
             /\ \/ app.canvas = Last.canvas_before
                \/ /\ Last.clicked = app.menu.clear_button
                   /\ Blank(app.canvas)

\* a frame without a hand whose draw signal was still true, with the board
\* visible and a stroke on the canvas, applied no stroke operation
C21_Witness ==
    /\ hist # << >>
    /\ Last.board_shown
    /\ Last.will_draw
    /\ Last.index_pos = None
    /\ Last.cv_calls = << >>
    /\ ~Blank(app.canvas)

(***************************************************************************)
(* C22.  A frame that draws in bounds applies exactly one operation.  With *)
(* the eraser on it is a filled circle of the background color at the      *)
(* current point with radius brush_size * 2, and every pixel it changes    *)
(* becomes the background color; with the eraser off it is a line of the   *)
(* active color and thickness brush_size to the current point, from the    *)
(* previous point or, if that was none, from the current point.  After it  *)
(* prev_pos is the current point.                                          *)
(***************************************************************************)
C22_OneOperationPerDraw ==
    (hist # << >> /\ Last.cv_calls # << >>) =>
       /\ Len(Last.cv_calls) = 1
       /\ app.prev_pos = Local(Last)
       /\ IF app.is_eraser
          THEN /\ Last.cv_calls[1] =
                     [fn |-> "circle", center |-> Local(Last),
                      radius |-> app.brush_size * 2, color |-> WHITE]
               /\ \A p \in DOMAIN app.canvas :
                     app.canvas[p] # Last.canvas_before[p] =>
                        app.canvas[p] = WHITE
          ELSE Last.cv_calls[1] =
                  [fn |-> "line",
                   pt1 |-> IF Last.prev_pos_before = None THEN Local(Last)
                           ELSE Last.prev_pos_before,
                   pt2 |-> Local(Last), color |-> app.current_color,
                   thickness |-> app.brush_size]

\* the eraser, continuing a stroke, turned a painted pixel white
C22_Witness ==
    /\ hist # << >>
    /\ app.is_eraser
    /\ Last.cv_calls # << >>
    /\ Last.prev_pos_before # None
    /\ Last.canvas_before[<<100, 100>>] # WHITE
    /\ app.canvas[<<100, 100>>] = WHITE

(***************************************************************************)
(* C23.  After a call of handle_interaction that activates a button the    *)
(* status message is the one of the button's role: the color for a color   *)
(* button, the pen thickness for a pen-size button, and a fixed text of    *)
(* its own for the eraser toggle, the clear button and each other toggle,  *)
(* that is a message which is none of the color or pen-thickness messages, *)
(* not the eraser's text and not empty.                                    *)
(***************************************************************************)
C23_MessageByRole ==
    (hist # << >> /\ Last.is_clicking /\ Last.ret # None) =>
       LET button == Last.ret
           message == app.menu.last_message
       IN  IF Contains(app.menu.color_buttons, button)
           THEN message = <<"Selected Color: ", button.color>>
           ELSE IF Contains(app.menu.pen_size_buttons, button)
           THEN message = <<"Pen Thickness: ", button.value>>
           ELSE IF button = app.menu.eraser_toggle
           THEN message = <<"Eraser Selected">>
           ELSE /\ message # << >>
                /\ message[1] \notin {"Selected Color: ", "Pen Thickness: ",
                                      "Eraser Selected"}

\* the part of C23 the code keeps: the messages of the color buttons, the
\* pen-size buttons and the eraser toggle
C23_RoleMessages ==
    (hist # << >> /\ Last.is_clicking /\ Last.ret # None) =>
       LET button == Last.ret
           message == app.menu.last_message
       IN  /\ Contains(app.menu.color_buttons, button) =>
                 message = <<"Selected Color: ", button.color>>
           /\ Contains(app.menu.pen_size_buttons, button) =>
                 message = <<"Pen Thickness: ", button.value>>
           /\ button = app.menu.eraser_toggle =>
                 message = <<"Eraser Selected">>

(***************************************************************************)
(* C26.  In every state of the frame loop the button registry is the one   *)
(* built at construction: the clear button, then the color buttons of the  *)
(* first eight palette colors other than white, then the pen-size buttons  *)
(* 5, 10, ..., 30, then the board, pen-size, color and eraser toggles, and *)
(* every button is where setup_menu put it.                                *)
(***************************************************************************)
C26_RegistryStatic ==
    LET registry == get_all_buttons(app.menu)
    IN  /\ Len(registry) = 1 + 8 + 6 + 4
        /\ registry[1] = app.menu.clear_button
        /\ registry[1].label = "Clear"
        /\ [i \in 1..8 |-> registry[1 + i].color] =
              <<RED, GREEN, BLUE, YELLOW, PURPLE, CYAN, BLACK, ORANGE>>
        /\ [i \in 1..6 |-> registry[9 + i].value] = <<5, 10, 15, 20, 25, 30>>
        /\ [i \in 1..4 |-> registry[15 + i].label] =
              <<"Board", "Pen Size", "Colors", "Eraser">>
        /\ \A i \in 1..15 : registry[i].label \notin
              {"Board", "Pen Size", "Colors", "Eraser"}
        /\ registry = get_all_buttons(setup_menu)

\* clicks have changed the color, the brush size, the panels and the status
\* message, and a stroke is on the canvas
C26_Witness ==
    /\ app.current_color = GREEN
    /\ app.brush_size = 20
    /\ app.show_colors
    /\ app.show_brush_sizes
    /\ app.menu.last_message # << >>
    /\ app.menu.current_hover # None
    /\ ~Blank(app.canvas)

(***************************************************************************)
(* C28.  show_canvas equals tracker.is_drawing_mode in every state; both   *)
(* are false before the first frame, and a frame changes either of them    *)
(* only by activating the board toggle, which flips both.                  *)
(***************************************************************************)
C28_BoardFlagsTogether ==
    /\ [](app.show_canvas = app.tracker.is_drawing_mode)
    /\ [](hist = << >> =>
             (~app.show_canvas /\ ~app.tracker.is_drawing_mode))
    /\ [][ /\ (\/ app'.show_canvas # app.show_canvas
               \/ app'.tracker.is_drawing_mode # app.tracker.is_drawing_mode)
              => Activated(app.menu.board_toggle)
           /\ Activated(app.menu.board_toggle) =>
                 /\ app'.show_canvas = ~app.show_canvas
                 /\ app'.tracker.is_drawing_mode
                       = ~app.tracker.is_drawing_mode ]_vars

\* the board toggle was activated while the board was visible: both flags
\* are false again
C28_Witness ==
    /\ hist # << >>
    /\ Last.board_shown
    /\ Last.clicked = app.menu.board_toggle
    /\ ~app.show_canvas
    /\ ~app.tracker.is_drawing_mode

(***************************************************************************)
(* C29.  A click on the green color button, the pen-size button 20, the    *)
(* eraser toggle or the clear button activates that button and has its     *)
(* effect whatever show_canvas, show_colors and show_brush_sizes are.      *)
(***************************************************************************)
C29_HiddenButtonsAct ==
    [][ (Now.click /\ Now.index_pos # None) =>
          /\ Now.index_pos = AtGreen =>
                /\ Activated(app.menu.color_buttons[2])
                /\ app'.current_color = GREEN
                /\ ~app'.is_eraser
          /\ Now.index_pos = AtSize20 =>
                /\ Activated(app.menu.pen_size_buttons[4])
                /\ app'.brush_size = 20
          /\ Now.index_pos = AtEraser =>
                /\ Activated(app.menu.eraser_toggle)
                /\ app'.is_eraser = ~app.is_eraser
          /\ Now.index_pos = AtClear =>
                /\ Activated(app.menu.clear_button)
                /\ Blank(app'.canvas) ]_vars

\* the green button was activated with the board and the color panel hidden
C29_Witness ==
    /\ hist # << >>
    /\ ~Last.board_shown
    /\ ~app.show_canvas
    /\ ~app.show_colors
    /\ Last.clicked = app.menu.color_buttons[2]
    /\ app.current_color = GREEN

\* the clear button was activated with the board hidden and wiped a stroke
C29_ClearWhileHidden ==
    /\ hist # << >>
    /\ ~Last.board_shown
    /\ Last.clicked = app.menu.clear_button
    /\ ~Blank(Last.canvas_before)
    /\ Blank(app.canvas)

(***************************************************************************)
(* C30.  A frame on which a click fires begins with prev_pos none, so any  *)
(* line it draws starts at its own point; and while the board is hidden    *)
(* prev_pos is none, so the first stroke after the board is shown again    *)
(* starts at its own point too.                                            *)
(***************************************************************************)
C30_ClickStartsFresh ==
    /\ (hist # << >> /\ Last.click) =>
          /\ Last.prev_pos_before = None
          /\ \A i \in 1..Len(Last.cv_calls) :
                Last.cv_calls[i].fn = "line" =>
                   Last.cv_calls[i].pt1 = Last.cv_calls[i].pt2
    /\ ~app.show_canvas => app.prev_pos = None

\* a click fired on a frame that drew on a canvas which already had a stroke
C30_Witness ==
    /\ hist # << >>
    /\ Last.click
    /\ Last.cv_calls # << >>
    /\ ~Blank(Last.canvas_before)

(***************************************************************************)
(* The two threads of a session, statement by statement where they touch   *)
(* the camera.  pc.main is the place of the main thread in run(), and      *)
(* pc.capture the place of the capture thread in update_frame; a thread is *)
(* inside cap.read() at the places named "...read...".  pc.frame is the    *)
(* local frame of capture_single_frame and pc.got what get_latest_frame    *)
(* has produced for the call of process_frame under way.  hist holds the   *)
(* last statement executed.                                                *)
(***************************************************************************)
CamHands == {<< >>, <<Released(P1)>>}

InitCam ==
    /\ app = VirtualCanvas_init
    /\ hist = << >>
    /\ pc = [main |-> "start", capture |-> "idle", frame |-> None,
             got |-> None]

\* the one-entry log of the statement step executed by thread by
Did(by, step) == <<[by |-> by, step |-> step]>>

\* initialize(): self.camera.start(), which opens the device and starts the
\* capture thread; its error leaves run()
CamStart(device_opens) ==
    /\ pc.main = "start"
    /\ \E r \in {start(app.camera, device_opens)} :
          /\ app' = [app EXCEPT !.camera = r.camera]
          /\ pc' = IF r.raised # None
                   THEN [pc EXCEPT !.main = "raised"]
                   ELSE [pc EXCEPT !.main = "wait1", !.capture = "while"]
    /\ hist' = Did("main", "camera.start")

\* wait_for_camera: get_immediate_frame is called and enters cap.read()
WaitCall ==
    /\ pc.main \in {"wait1", "wait2"}
    /\ pc' = [pc EXCEPT !.main =
                 IF ~can_capture(app.camera) THEN "loop"
                 ELSE IF pc.main = "wait1" THEN "wait_read1"
                 ELSE "wait_read2"]
    /\ hist' = Did("main", "get_immediate_frame")
    /\ UNCHANGED app

\* wait_for_camera: cap.read() returns to get_immediate_frame; a failed read
\* raises, initialize() catches the error and returns, and run() goes on to
\* the loop; after the second read initialize() sets up menu and canvas
WaitReturn(read) ==
    /\ pc.main \in {"wait_read1", "wait_read2"}
    /\ \E r \in {get_immediate_frame(app.camera, read)} :
          /\ pc' = [pc EXCEPT !.main =
                       IF r.raised # None THEN "loop"
                       ELSE IF pc.main = "wait_read1" THEN "wait2"
                       ELSE "loop"]
          /\ app' = IF r.raised = None /\ pc.main = "wait_read2"
                    THEN setup_canvas([app EXCEPT !.menu = setup_menu])
                    ELSE app
    /\ hist' = Did("main", "cap.read")

\* process_frame: camera.get_frame() finds is_running true and
\* get_latest_frame enters `with self.frame_lock`
GetFrameLock ==
    /\ pc.main = "loop"
    /\ app.camera.is_running
    /\ app.camera.frame_lock = << >>
    /\ app' = [app EXCEPT !.camera = lock_acquire(app.camera, "main")]
    /\ pc' = [pc EXCEPT !.main = "locked"]
    /\ hist' = Did("main", "frame_lock.acquire")

\* get_latest_frame inside the with block: the copy, or the error
GetLatestFrame ==
    /\ pc.main = "locked"
    /\ pc' = [pc EXCEPT !.main = "unlock",
                        !.got = get_latest_frame(app.camera)]
    /\ hist' = Did("main", "get_latest_frame")
    /\ UNCHANGED app

\* get_latest_frame leaves the with block, by return or by the error, which
\* nothing catches
GetFrameUnlock ==
    /\ pc.main = "unlock"
    /\ app' = [app EXCEPT !.camera = lock_release(app.camera)]
    /\ pc' = [pc EXCEPT !.main = IF pc.got.raised # None THEN "raised"
                                 ELSE "process"]
    /\ hist' = Did("main", "frame_lock.release")

\* the rest of process_frame on the frame got, and the test of `while`
CamProcess(key) ==
    /\ pc.main = "process"
    /\ \E r \in {process_frame_with(app, pc.got, key)} :
          /\ app' = [r.self EXCEPT !.trace = NoTrace]
          /\ pc' = [pc EXCEPT !.got = None,
                              !.main = IF r.raised # None THEN "raised"
                                       ELSE IF r.ret THEN "loop" ELSE "stop"]
    /\ hist' = Did("main", "process_frame")

\* camera.stop(), lines 112-115
CamStop ==
    /\ pc.main = "stop"
    /\ app' = [app EXCEPT !.camera.is_running = FALSE]
    /\ pc' = [pc EXCEPT !.main = IF app.camera.is_running THEN "join"
                                 ELSE "stopped"]
    /\ hist' = Did("main", "camera.stop")

\* camera.stop(), lines 117-119: join returns
CamJoin ==
    /\ pc.main = "join"
    /\ joined(pc.capture)
    /\ app' = [app EXCEPT !.camera.capture_thread = FALSE]
    /\ pc' = [pc EXCEPT !.main = "release"]
    /\ hist' = Did("main", "capture_thread.join")

\* camera.stop(), line 121
CamRelease ==
    /\ pc.main = "release"
    /\ app' = [app EXCEPT !.camera = release(app.camera)]
    /\ pc' = [pc EXCEPT !.main = "stopped"]
    /\ hist' = Did("main", "camera.release")

\* a further call of camera.stop() after the first has returned
CamStopAgain ==
    /\ pc.main = "stopped"
    /\ app' = [app EXCEPT !.camera = stop(app.camera)]
    /\ pc' = [pc EXCEPT !.main = "stopped_again"]
    /\ hist' = Did("main", "camera.stop again")

\* update_frame, line 56
CapWhile ==
    /\ pc.capture = "while"
    /\ pc' = [pc EXCEPT !.capture = IF app.camera.is_running THEN "check"
                                    ELSE "done"]
    /\ hist' = Did("capture", "while self.is_running")
    /\ UNCHANGED app

\* capture_single_frame, lines 61-62
CapCheck ==
    /\ pc.capture = "check"
    /\ pc' = [pc EXCEPT !.capture = IF can_capture(app.camera) THEN "call"
                                    ELSE "while"]
    /\ hist' = Did("capture", "capture_single_frame")
    /\ UNCHANGED app

\* capture_single_frame, line 64: self.cap.read is called, which fails on a
\* cap that has become None
CapCall ==
    /\ pc.capture = "call"
    /\ pc' = [pc EXCEPT !.capture = IF app.camera.cap = None THEN "crashed"
                                    ELSE "read"]
    /\ hist' = Did("capture", "self.cap.read")
    /\ UNCHANGED app

\* capture_single_frame, lines 64-66: cap.read() returns
CapReturn(read) ==
    /\ pc.capture = "read"
    /\ pc' = IF read.ret
             THEN [pc EXCEPT !.capture = "lock", !.frame = ndarray(read.hands)]
             ELSE [pc EXCEPT !.capture = "while"]
    /\ hist' = Did("capture", "cap.read")
    /\ UNCHANGED app

\* capture_single_frame, line 68
CapLock ==
    /\ pc.capture = "lock"
    /\ app.camera.frame_lock = << >>
    /\ app' = [app EXCEPT !.camera = lock_acquire(app.camera, "capture")]
    /\ pc' = [pc EXCEPT !.capture = "write"]
    /\ hist' = Did("capture", "frame_lock.acquire")

\* capture_single_frame, line 69
CapWrite ==
    /\ pc.capture = "write"
    /\ app' = [app EXCEPT !.camera = store_frame(app.camera, pc.frame)]
    /\ pc' = [pc EXCEPT !.capture = "unlock"]
    /\ hist' = Did("capture", "latest_frame = frame")

\* capture_single_frame leaves the with block and returns
CapUnlock ==
    /\ pc.capture = "unlock"
    /\ app' = [app EXCEPT !.camera = lock_release(app.camera)]
    /\ pc' = [pc EXCEPT !.capture = "while", !.frame = None]
    /\ hist' = Did("capture", "frame_lock.release")

MainNext ==
    \/ \E device_opens \in BOOLEAN : CamStart(device_opens)
    \/ WaitCall
    \/ \E ret \in BOOLEAN, hands \in CamHands :
          WaitReturn([ret |-> ret, hands |-> hands])
    \/ GetFrameLock
    \/ GetLatestFrame
    \/ GetFrameUnlock
    \/ \E key \in {NoKey, ESC_KEY} : CamProcess(key)

StopNext == CamStop \/ CamJoin \/ CamRelease

CaptureNext ==
    \/ CapWhile
    \/ CapCheck
    \/ CapCall
    \/ \E ret \in BOOLEAN, hands \in CamHands :
          CapReturn([ret |-> ret, hands |-> hands])
    \/ CapLock
    \/ CapWrite
    \/ CapUnlock

NextCam == MainNext \/ StopNext \/ CamStopAgain \/ CaptureNext

SpecCam == InitCam /\ [][NextCam]_vars

\* the capture thread keeps running and its device reads return; stop(),
\* once called, runs on
SpecCamFair == SpecCam /\ WF_vars(CaptureNext) /\ WF_vars(StopNext)

\* a thread is inside cap.read()
MainReading == pc.main \in {"wait_read1", "wait_read2"}

CaptureReading == pc.capture = "read"

(***************************************************************************)
(* C24.  The main thread and the capture thread are never inside a read of *)
(* the camera device at the same time.                                     *)
(***************************************************************************)
C24_OneReaderAtATime == ~(MainReading /\ CaptureReading)

\* the part of C24 the code keeps: during the frame loop get_frame finds the
\* background capture active and hands over the latest frame; the main
\* thread reads the device only in wait_for_camera
C24_LoopTakesLatestFrame ==
    /\ pc.main \in {"loop", "locked", "unlock", "process"} =>
          app.camera.is_running
    /\ (pc.main = "process") =>
          /\ pc.got.raised = None
          /\ pc.got.frame.hands \in CamHands

(***************************************************************************)
(* C25.  latest_frame changes only in a step of the capture thread taken   *)
(* with the lock held by it, and the main thread takes its frame only in a *)
(* step taken with the lock held by it; the write stores the frame the     *)
(* read just returned; a failed read leaves latest_frame as it was; and    *)
(* the frame the main thread gets is a copy in a buffer of its own, which  *)
(* stays as it is while the frame is processed.                            *)
(***************************************************************************)
C25_Mailbox ==
    /\ [][ app'.camera.latest_frame # app.camera.latest_frame =>
              /\ hist'[1].by = "capture"
              /\ app.camera.frame_lock = <<"capture">>
              /\ app'.camera.frame_lock = <<"capture">> ]_vars
    /\ [][ (pc'.got # pc.got /\ pc'.got # None) =>
              /\ app.camera.frame_lock = <<"main">>
              /\ app'.camera.frame_lock = <<"main">>
              /\ pc'.got.raised = None =>
                    pc'.got.frame.hands = app.camera.latest_frame.hands ]_vars
    /\ [][ (pc.capture = "read" /\ pc'.capture = "lock") =>
              pc'.frame # None ]_vars
    /\ [][ (pc.capture \in {"lock", "write"} /\ pc'.capture # pc.capture) =>
              /\ pc'.frame = pc.frame
              /\ pc.capture = "write" =>
                    app'.camera.latest_frame = pc.frame ]_vars
    /\ [][ (pc.capture = "read" /\ pc'.capture = "while") =>
              app'.camera.latest_frame = app.camera.latest_frame ]_vars
    /\ []((pc.got # None /\ pc.got.raised = None) =>
             /\ pc.got.frame.buffer = <<"copy">>
             /\ app.camera.latest_frame.buffer # pc.got.frame.buffer)
    /\ [][ (pc.main = "process" /\ pc'.main = "process") =>
              pc'.got = pc.got ]_vars

\* while the main thread processes its copy the capture thread has stored
\* another picture
C25_Witness ==
    /\ pc.main = "process"
    /\ pc.got.frame.hands = << >>
    /\ app.camera.latest_frame.hands # << >>

(***************************************************************************)
(* C27.  Once camera.stop() has set is_running false it returns; the       *)
(* device is released only when the capture thread has ended, and after    *)
(* the return the thread takes no step, reads no frame and latest_frame    *)
(* stays; a further stop() changes nothing.                                *)
(***************************************************************************)
C27_StopTerminates ==
    /\ (pc.main = "join" ~> pc.main \in {"stopped", "stopped_again"})
    /\ []((app.camera.cap = None /\ pc.main # "start") =>
             /\ pc.capture = "done"
             /\ pc.main \in {"stopped", "stopped_again"})
    /\ [](pc.main \in {"release", "stopped", "stopped_again"} =>
             pc.capture = "done")
    /\ [][ pc.main \in {"stopped", "stopped_again"} =>
              /\ pc'.capture = pc.capture
              /\ pc'.frame = pc.frame
              /\ app'.camera.latest_frame = app.camera.latest_frame ]_vars
    /\ [][ (pc.main = "stopped" /\ pc'.main = "stopped_again") =>
              app' = app ]_vars

\* stop() has returned and has been called again: the thread has ended
\* after storing a frame, and the device is released
C27_Witness ==
    /\ pc.main = "stopped_again"
    /\ pc.capture = "done"
    /\ app.camera.cap = None
    /\ ~app.camera.is_running
    /\ app.camera.latest_frame # None

\* stop() waits in join while the capture thread is inside cap.read()
C27_StopWaits ==
    /\ pc.main = "join"
    /\ pc.capture = "read"

=============================================================================
